---- MODULE Spec2Model ----
(***************************************************************************)
(* Model of the result-normalization and categorization pipeline of        *)
(* where-to-buy-ai-agent (src/utils/*.js), as src/server.js drives it.     *)
(*                                                                         *)
(* Strings are sequences of one-character strings, so that the regular     *)
(* expressions, toLowerCase, split, includes and indexOf of the source act *)
(* on characters.  Characters outside ASCII are written by their code      *)
(* point ("U+20B9" is the rupee sign).                                     *)
(*                                                                         *)
(* JavaScript numbers are modelled exactly where the pipeline computes     *)
(* with them: a finite value is a reduced fraction, and NaN, Infinity and  *)
(* the multiples c * Number.MAX_VALUE (0 < c <= 1) that the unparseable    *)
(* price sentinel produces are values of their own.  Binary rounding of    *)
(* doubles is not modelled.                                                *)
(***************************************************************************)
EXTENDS Integers, Sequences, FiniteSets, TLC

\* ------------------------------------------------------------------------
\* Characters and strings
\* ------------------------------------------------------------------------

UpperChars ==
    <<"A","B","C","D","E","F","G","H","I","J","K","L","M","N","O","P","Q","R","S","T","U","V","W","X","Y","Z">>

LowerChars ==
    <<"a","b","c","d","e","f","g","h","i","j","k","l","m","n","o","p","q","r","s","t","u","v","w","x","y","z">>

DigitChars == <<"0","1","2","3","4","5","6","7","8","9">>

\* String.prototype.toLowerCase, one character
LowerChar(c) ==
    IF \E i \in DOMAIN UpperChars : UpperChars[i] = c
    THEN LowerChars[CHOOSE i \in DOMAIN UpperChars : UpperChars[i] = c]
    ELSE c

\* String.prototype.toLowerCase
ToLowerCase(s) == [i \in DOMAIN s |-> LowerChar(s[i])]

\* String.prototype.toUpperCase, one character
UpperChar(c) ==
    IF \E i \in DOMAIN LowerChars : LowerChars[i] = c
    THEN UpperChars[CHOOSE i \in DOMAIN LowerChars : LowerChars[i] = c]
    ELSE c

IsDigit(c) == \E i \in DOMAIN DigitChars : DigitChars[i] = c



IsSpace(c) == c = " "


\* c is of the named character class: \d, [0-9.], [\d,], \s, [\d.\s], \S
InClass(c, class) ==
    CASE class = "Digit" -> IsDigit(c)
      [] class = "DigDot" -> IsDigit(c) \/ c = "."
      [] class = "DigComma" -> IsDigit(c) \/ c = ","
      [] class = "Space" -> IsSpace(c)
      [] class = "DigDotSpace" -> IsDigit(c) \/ c = "." \/ IsSpace(c)
      [] class = "NonSpace" -> ~IsSpace(c)

\* end (exclusive) of the longest run of characters of a class that starts at i
RunEnd(s, i, class) ==
    CHOOSE j \in i..(Len(s) + 1) :
        /\ \A k \in i..(j - 1) : InClass(s[k], class)
        /\ (j = Len(s) + 1 \/ ~InClass(s[j], class))

\* w occurs in s at position i, letters compared case-insensitively (flag i)
StartsWithAt(s, i, w) ==
    /\ i >= 1
    /\ i + Len(w) - 1 <= Len(s)
    /\ \A k \in 1..Len(w) : LowerChar(s[i + k - 1]) = w[k]

\* w occurs in s at position i, exactly
OccursAt(s, i, w) ==
    /\ i >= 1
    /\ i + Len(w) - 1 <= Len(s)
    /\ \A k \in 1..Len(w) : s[i + k - 1] = w[k]

\* String.prototype.includes
Includes(s, w) == \E i \in 1..(Len(s) + 1) : OccursAt(s, i, w)

\* String.prototype.indexOf (0-based, -1 when absent)
IndexOf(s, w) ==
    IF Includes(s, w)
    THEN (CHOOSE i \in 1..(Len(s) + 1) :
              /\ OccursAt(s, i, w)
              /\ \A k \in 1..(i - 1) : ~OccursAt(s, k, w)) - 1
    ELSE -1

\* String.prototype.trim
Trim(s) ==
    IF \A i \in DOMAIN s : IsSpace(s[i]) THEN << >>
    ELSE LET a == CHOOSE i \in DOMAIN s :
                      ~IsSpace(s[i]) /\ \A k \in 1..(i - 1) : IsSpace(s[k])
             b == CHOOSE i \in DOMAIN s :
                      ~IsSpace(s[i]) /\ \A k \in (i + 1)..Len(s) : IsSpace(s[k])
         IN  SubSeq(s, a, b)

\* String.prototype.split(/\s+/): the pieces between the maximal runs of
\* white space, an empty piece before a leading and after a trailing run
RECURSIVE SplitFrom(_, _)
SplitFrom(s, i) ==
    LET e == RunEnd(s, i, "NonSpace")
    IN  IF e > Len(s) THEN << SubSeq(s, i, Len(s)) >>
        ELSE << SubSeq(s, i, e - 1) >> \o SplitFrom(s, RunEnd(s, e, "Space"))

SplitSpaces(s) == SplitFrom(s, 1)

\* ------------------------------------------------------------------------
\* Numbers
\* ------------------------------------------------------------------------

RECURSIVE Gcd(_, _)
Gcd(a, b) == IF b = 0 THEN a ELSE Gcd(b, a % b)

Abs(x) == IF x < 0 THEN -x ELSE x

\* the finite number n/d (d > 0), reduced
Fin(n, d) ==
    LET g == Gcd(Abs(n), d)
    IN  [k |-> "fin", n |-> n \div g, d |-> d \div g]

NaN == [k |-> "nan", n |-> 0, d |-> 1]

Infinity == [k |-> "inf", n |-> 1, d |-> 1]

\* (n/d) * Number.MAX_VALUE with 0 < n/d; above MAX_VALUE a double is Infinity
Huge(n, d) ==
    IF n > d THEN Infinity
    ELSE LET g == Gcd(n, d) IN [k |-> "max", n |-> n \div g, d |-> d \div g]

\* Number.MAX_VALUE, the sentinel of extractNumericPrice
MAX_VALUE == Huge(1, 1)

Zero == Fin(0, 1)

\* a * b, for b finite and b >= 0
NumMul(a, b) ==
    CASE a.k = "nan" \/ b.k = "nan" -> NaN
      [] a.k = "fin" /\ b.k = "fin" -> Fin(a.n * b.n, a.d * b.d)
      [] a.k = "max" /\ b.k = "fin" ->
            IF b.n = 0 THEN Zero ELSE Huge(a.n * b.n, a.d * b.d)
      [] a.k = "inf" /\ b.k = "fin" -> IF b.n = 0 THEN NaN ELSE Infinity
      [] OTHER -> NaN

\* a / b, for a >= 0 and b finite and b > 0
NumDiv(a, b) ==
    CASE a.k = "nan" \/ b.k = "nan" -> NaN
      [] a.k = "fin" /\ b.k = "fin" /\ b.n > 0 -> Fin(a.n * b.d, a.d * b.n)
      [] a.k = "max" /\ b.k = "fin" /\ b.n > 0 -> Huge(a.n * b.d, a.d * b.n)
      [] a.k = "inf" /\ b.k = "fin" /\ b.n > 0 -> Infinity
      [] OTHER -> NaN

\* x > 0
NumPositive(x) ==
    \/ x.k = "fin" /\ x.n > 0
    \/ x.k = "max"
    \/ x.k = "inf"

\* ToBoolean of a number: false for 0 and NaN
Truthy(x) == ~(x.k = "nan" \/ (x.k = "fin" /\ x.n = 0))

\* sign of a - b for non-negative a, b; 0 when a - b is 0 or NaN
\* (Infinity - Infinity is NaN, which Array.prototype.sort reads as 0)
CompareNum(a, b) ==
    CASE a.k = "nan" \/ b.k = "nan" -> 0
      [] a.k = "fin" /\ b.k = "fin" ->
            IF a.n * b.d < b.n * a.d THEN -1
            ELSE IF a.n * b.d > b.n * a.d THEN 1 ELSE 0
      [] a.k = "fin" -> -1
      [] b.k = "fin" -> 1
      [] a.k = "max" /\ b.k = "max" ->
            IF a.n * b.d < b.n * a.d THEN -1
            ELSE IF a.n * b.d > b.n * a.d THEN 1 ELSE 0
      [] a.k = "max" -> -1
      [] b.k = "max" -> 1
      [] OTHER -> 0

\* Math.abs(a - b) < n/d for finite a, b; false when a - b is NaN
AbsDiffLess(a, b, n, d) ==
    /\ a.k = "fin" /\ b.k = "fin"
    /\ Abs(a.n * b.d - b.n * a.d) * d < n * a.d * b.d

RECURSIVE DigitsValue(_)
DigitsValue(s) ==
    IF s = << >> THEN 0
    ELSE DigitsValue(SubSeq(s, 1, Len(s) - 1)) * 10
         + (CHOOSE i \in DOMAIN DigitChars : DigitChars[i] = s[Len(s)]) - 1

RECURSIVE Pow10(_)
Pow10(n) == IF n = 0 THEN 1 ELSE 10 * Pow10(n - 1)

\* the number written with the integer digits int and the fraction digits
\* frac; NaN when there is no digit
DecimalValue(int, frac) ==
    IF int = << >> /\ frac = << >> THEN NaN
    ELSE Fin(DigitsValue(int) * Pow10(Len(frac)) + DigitsValue(frac),
             Pow10(Len(frac)))

\* parseFloat: the longest prefix digits [ "." digits ] or "." digits;
\* NaN when the prefix holds no digit
ParseFloat(s) ==
    LET ie == RunEnd(s, 1, "Digit")
    IN  IF ie <= Len(s) /\ s[ie] = "."
        THEN DecimalValue(SubSeq(s, 1, ie - 1),
                          SubSeq(s, ie + 1, RunEnd(s, ie + 1, "Digit") - 1))
        ELSE DecimalValue(SubSeq(s, 1, ie - 1), << >>)

\* parseInt of a run of digits
ParseInt(s) ==
    LET ie == RunEnd(s, 1, "Digit")
    IN  IF ie = 1 THEN NaN ELSE Fin(DigitsValue(SubSeq(s, 1, ie - 1)), 1)

RECURSIVE NatToChars(_)
NatToChars(n) ==
    IF n < 10 THEN << DigitChars[n + 1] >>
    ELSE NatToChars(n \div 10) \o << DigitChars[(n % 10) + 1] >>

\* Number.prototype.toFixed(2) of a non-negative number: two decimals, the
\* tie rounded up; "NaN", "Infinity", and the exponent form for a value of
\* 1e21 or more (only the multiples of MAX_VALUE here), kept as one token
ToFixed2(x) ==
    CASE x.k = "nan" -> <<"N","a","N">>
      [] x.k = "inf" -> <<"I","n","f","i","n","i","t","y">>
      [] x.k = "max" -> << "<e+308>" >>
      [] OTHER ->
            LET q == (x.n * 200 + x.d) \div (2 * x.d)
                c == q % 100
            IN  NatToChars(q \div 100) \o <<".">>
                  \o << DigitChars[(c \div 10) + 1], DigitChars[(c % 10) + 1] >>

\* ------------------------------------------------------------------------
\* String literals of the source
\* ------------------------------------------------------------------------

\* the words the source matches against, as strings of characters
\* the unit words of the weight patterns
Unit ==
    [kg |-> <<"k","g">>,
     g |-> <<"g">>,
     gm |-> <<"g","m">>,
     gram |-> <<"g","r","a","m">>,
     ml |-> <<"m","l">>,
     l |-> <<"l">>,
     liter |-> <<"l","i","t","e","r">>,
     litre |-> <<"l","i","t","r","e">>]

\* ------------------------------------------------------------------------
\* src/utils/priceUtils.js: extractNumericPrice
\* ------------------------------------------------------------------------

\* null or undefined where a string is expected: no string of characters
Null == << "<null>" >>

\* null or undefined where a number is expected
NullNum == [k |-> "null", n |-> 0, d |-> 1]

\* String.prototype.replace(/,/g, '')
StripCommas(s) == SelectSeq(s, LAMBDA c : c # ",")

\* priceStr.match(/[\d,]+\.?\d*/g)[0], or Null when nothing matches: the
\* leftmost longest run of digits and commas, an optional point, digits
FirstPriceRun(s) ==
    IF \A i \in DOMAIN s : ~InClass(s[i], "DigComma") THEN Null
    ELSE LET x == CHOOSE x \in DOMAIN s :
                      InClass(s[x], "DigComma")
                          /\ \A k \in 1..(x - 1) : ~InClass(s[k], "DigComma")
             j == RunEnd(s, x, "DigComma")
         IN  SubSeq(s, x,
                    RunEnd(s, IF j <= Len(s) /\ s[j] = "." THEN j + 1 ELSE j,
                           "Digit") - 1)

extractNumericPrice(priceStr) ==
    IF priceStr = Null \/ priceStr = << >> THEN MAX_VALUE
    ELSE IF FirstPriceRun(priceStr) = Null THEN MAX_VALUE
    ELSE ParseFloat(StripCommas(FirstPriceRun(priceStr)))

\* ------------------------------------------------------------------------
\* src/utils/priceUtils.js: formatPrice
\* ------------------------------------------------------------------------

\* the rupee sign of the literals of formatPrice
RupeeSign == << "U+20B9" >>

\* a value formatPrice receives: a string, a number, or null
JsValue(kind, str, num) == [kind |-> kind, str |-> str, num |-> num]

\* !price: null, the empty string, 0 and NaN
Falsy(price) ==
    \/ price.kind = "null"
    \/ price.kind = "string" /\ price.str = << >>
    \/ price.kind = "number" /\ ~Truthy(price.num)

\* formatPrice without the test for a string that holds the sign already
formatPrice_AlwaysConverts(price) ==
    IF Falsy(price) THEN RupeeSign \o <<"0",".","0","0">>
    ELSE RupeeSign \o ToFixed2(IF price.kind = "string"
                               THEN ParseFloat(price.str) ELSE price.num)

formatPrice(price) ==
    IF Falsy(price) THEN RupeeSign \o <<"0",".","0","0">>
    ELSE IF price.kind = "string" /\ Includes(price.str, RupeeSign) THEN price.str
    ELSE RupeeSign \o ToFixed2(IF price.kind = "string"
                               THEN ParseFloat(price.str) ELSE price.num)

\* ------------------------------------------------------------------------
\* src/utils/attributeUtils.js
\* ------------------------------------------------------------------------

\* a regular-expression match: m0 the matched text, m1 and m2 the groups
NoMatch == [found |-> FALSE, m0 |-> << >>, m1 |-> << >>, m2 |-> << >>]

\* the three patterns, in order: number \s* unit; number \s* -? \s* unit;
\* number unit
weightPatterns ==
    << [spaces |-> TRUE, hyphen |-> FALSE,
        units |-> << Unit.kg, Unit.g, Unit.gm, Unit.gram, Unit.ml, Unit.l, Unit.liter, Unit.litre >>],
       [spaces |-> TRUE, hyphen |-> TRUE,
        units |-> << Unit.kg, Unit.g, Unit.gm, Unit.gram, Unit.ml, Unit.l, Unit.liter, Unit.litre >>],
       [spaces |-> FALSE, hyphen |-> FALSE,
        units |-> << Unit.kg, Unit.g, Unit.gm, Unit.gram, Unit.ml, Unit.l >>] >>

\* index of the first alternative that occurs at position i, 0 when none does
FirstAlt(s, i, alts) ==
    IF \E a \in DOMAIN alts : StartsWithAt(s, i, alts[a])
    THEN CHOOSE a \in DOMAIN alts :
             /\ StartsWithAt(s, i, alts[a])
             /\ \A b \in 1..(a - 1) : ~StartsWithAt(s, i, alts[b])
    ELSE 0

AfterSeparator(p, s, j) ==
    IF p.hyphen
    THEN LET k == RunEnd(s, j, "Space")
         IN  RunEnd(s, IF k <= Len(s) /\ s[k] = "-" THEN k + 1 ELSE k, "Space")
    ELSE IF p.spaces THEN RunEnd(s, j, "Space")
    ELSE j

\* the match of weight pattern p that starts at position i: the number
\* ends (exclusive) at j, the unit starts at k and is alternative a of the
\* pattern (0: none).  [0-9.]+ takes its longest run: after a shorter one
\* the next character is a digit or a point, which neither \s, "-" nor a
\* unit matches.
WeightAt(p, s, i) ==
    LET j == RunEnd(s, i, "DigDot")
        k == AfterSeparator(p, s, j)
        a == FirstAlt(s, k, p.units)
    IN  IF j > i /\ a # 0
        THEN [found |-> TRUE,
              m0 |-> SubSeq(s, i, k + Len(p.units[a]) - 1),
              m1 |-> SubSeq(s, i, j - 1),
              m2 |-> SubSeq(s, k, k + Len(p.units[a]) - 1)]
        ELSE NoMatch

\* the match m if it is one, otherwise the match other
OrElse(m, other) == IF m.found THEN m ELSE other

\* title.match(pattern): the match at the leftmost position, from i on,
\* that has one
RECURSIVE WeightMatchFrom(_, _, _)
WeightMatchFrom(p, s, i) ==
    IF i > Len(s) THEN NoMatch
    ELSE OrElse(WeightAt(p, s, i), WeightMatchFrom(p, s, i + 1))

\* for (const pattern of weightPatterns): the match of the first pattern,
\* from the n-th on, that matches
RECURSIVE WeightFromPattern(_, _)
WeightFromPattern(title, n) ==
    IF n > Len(weightPatterns) THEN NoMatch
    ELSE OrElse(WeightMatchFrom(weightPatterns[n], title, 1),
                WeightFromPattern(title, n + 1))

extractWeight(title) ==
    IF title = Null \/ title = << >> THEN NoMatch
    ELSE WeightFromPattern(title, 1)

\* the six patterns, in order: pack of N; N x amount; N pack; N count; N pc;
\* set of N
packPatterns ==
    << [kind |-> "wordOfNum", word |-> <<"p","a","c","k">>],
       [kind |-> "numTimes",  word |-> <<"x">>],
       [kind |-> "numWord",   word |-> <<"p","a","c","k">>],
       [kind |-> "numWord",   word |-> <<"c","o","u","n","t">>],
       [kind |-> "numWord",   word |-> <<"p","c">>],
       [kind |-> "wordOfNum", word |-> <<"s","e","t">>] >>

\* word \s* of \s* ([0-9]+) from i: "of" starts at a, the digits run from
\* b to e (exclusive)
PackWordOfNum(p, s, i) ==
    LET a == RunEnd(s, i + Len(p.word), "Space")
        b == RunEnd(s, a + 2, "Space")
        e == RunEnd(s, b, "Digit")
    IN  IF StartsWithAt(s, i, p.word) /\ StartsWithAt(s, a, <<"o","f">>) /\ e > b
        THEN [found |-> TRUE, m0 |-> SubSeq(s, i, e - 1),
              m1 |-> SubSeq(s, b, e - 1), m2 |-> << >>]
        ELSE NoMatch

\* ([0-9]+) \s* word from i, and \s* [0-9.]+ behind it for "numTimes": the
\* digits end (exclusive) at j, the word starts at a, the amount runs from
\* b to e (exclusive)
PackNumWord(p, s, i) ==
    LET j == RunEnd(s, i, "Digit")
        a == RunEnd(s, j, "Space")
        b == RunEnd(s, a + Len(p.word), "Space")
        e == RunEnd(s, b, "DigDot")
    IN  IF j > i /\ StartsWithAt(s, a, p.word) /\ (p.kind = "numTimes" => e > b)
        THEN [found |-> TRUE,
              m0 |-> SubSeq(s, i, IF p.kind = "numTimes" THEN e - 1
                                  ELSE a + Len(p.word) - 1),
              m1 |-> SubSeq(s, i, j - 1), m2 |-> << >>]
        ELSE NoMatch

\* the first match of pack pattern p that starts at position i or later
RECURSIVE PackMatchFrom(_, _, _)
PackMatchFrom(p, s, i) ==
    IF i > Len(s) THEN NoMatch
    ELSE OrElse(IF p.kind = "wordOfNum" THEN PackWordOfNum(p, s, i)
                ELSE PackNumWord(p, s, i),
                PackMatchFrom(p, s, i + 1))

\* for (const pattern of packPatterns)
RECURSIVE PackFromPattern(_, _)
PackFromPattern(title, n) ==
    IF n > Len(packPatterns) THEN NoMatch
    ELSE OrElse(PackMatchFrom(packPatterns[n], title, 1),
                PackFromPattern(title, n + 1))

extractPackSize(title) ==
    IF title = Null \/ title = << >> THEN NoMatch
    ELSE PackFromPattern(title, 1)

\* feature tag -> the words that must all occur in the title
featureKeywords ==
    << [key |-> "original",        words |-> << <<"o","r","i","g","i","n","a","l">> >>],
       [key |-> "fresh",           words |-> << <<"f","r","e","s","h">> >>],
       [key |-> "cool",            words |-> << <<"c","o","o","l","i","n","g">> >>],
       [key |-> "icy",             words |-> << <<"c","o","o","l","i","n","g">> >>],
       [key |-> "lemon",           words |-> << <<"l","e","m","o","n">> >>],
       [key |-> "germ protection", words |-> << <<"g","e","r","m">>, <<"p","r","o","t","e","c","t","i","o","n">> >>],
       [key |-> "antibacterial",   words |-> << <<"a","n","t","i","b","a","c","t","e","r","i","a","l">> >>],
       [key |-> "anti-bacterial",  words |-> << <<"a","n","t","i","b","a","c","t","e","r","i","a","l">> >>],
       [key |-> "natural",         words |-> << <<"n","a","t","u","r","a","l">> >>],
       [key |-> "organic",         words |-> << <<"o","r","g","a","n","i","c">> >>],
       [key |-> "fragrance",       words |-> << <<"f","r","a","g","r","a","n","c","e">> >>],
       [key |-> "scented",         words |-> << <<"s","c","e","n","t","e","d">> >>] >>

RECURSIVE FeaturesFrom(_, _)
FeaturesFrom(lowerTitle, n) ==
    IF n > Len(featureKeywords) THEN << >>
    ELSE (IF \A w \in DOMAIN featureKeywords[n].words :
                 Includes(lowerTitle, featureKeywords[n].words[w])
          THEN << featureKeywords[n].key >> ELSE << >>)
         \o FeaturesFrom(lowerTitle, n + 1)

extractFeatures(title) ==
    IF title = Null \/ title = << >> THEN << >>
    ELSE FeaturesFrom(ToLowerCase(title), 1)

\* the weight weightValue of the captured unit, without the branch for
\* litres: 'l' passes through
Standardized_NoLitre(weightValue, unit) ==
    IF unit = Unit.kg
    THEN [individualWeight |-> NumMul(weightValue, Fin(1000, 1)), weightUnit |-> Unit.g]
    ELSE [individualWeight |-> weightValue, weightUnit |-> unit]

\* "Standardize weight to grams or ml": the weight weightValue of the
\* captured unit (lowercased) in grams or millilitres
Standardized(weightValue, unit) ==
    IF unit = Unit.kg
    THEN [individualWeight |-> NumMul(weightValue, Fin(1000, 1)), weightUnit |-> Unit.g]
    ELSE IF unit = Unit.l \/ unit = Unit.liter \/ unit = Unit.litre
    THEN [individualWeight |-> NumMul(weightValue, Fin(1000, 1)), weightUnit |-> Unit.ml]
    ELSE [individualWeight |-> weightValue, weightUnit |-> unit]

\* TotalWeight without the multiplication by the pack size
TotalWeight_IgnoringPack(weightMatch, packMatch, individualWeight) ==
    IF ~weightMatch.found THEN Zero ELSE individualWeight

\* "Calculate total weight": totalWeight as the if (weightMatch) block
\* leaves it
TotalWeight(weightMatch, packMatch, individualWeight) ==
    IF ~weightMatch.found THEN Zero
    ELSE IF packMatch.found
         THEN NumMul(individualWeight, ParseInt(packMatch.m1))
    ELSE individualWeight

\* the object calculateWeightAndPrice returns; the text before the unit
\* price in unitPriceFormatted is the three characters U+00E2 U+201A U+00B9
\* of the template literal
WeightAndPrice(individualWeight, totalWeight, weightUnit, packSize, unitPrice) ==
    [individualWeight |-> individualWeight,
     totalWeight |-> totalWeight,
     weightUnit |-> weightUnit,
     packSize |-> packSize,
     unitPrice |-> unitPrice,
     unitPriceFormatted |->
        IF NumPositive(totalWeight)
        THEN << "U+00E2", "U+201A", "U+00B9" >> \o ToFixed2(unitPrice) \o <<"/">>
               \o (IF weightUnit = Unit.ml THEN <<"1","0","0","m","l">> ELSE <<"1","0","0","g">>)
        ELSE Null]

\* "Calculate unit price (price per 100g/100ml)"
WithUnitPrice(individualWeight, totalWeight, weightUnit, packSize, priceValue) ==
    WeightAndPrice(individualWeight, totalWeight, weightUnit, packSize,
        IF NumPositive(totalWeight)
        THEN NumMul(NumDiv(priceValue, totalWeight), Fin(100, 1))
        ELSE Zero)

WithTotalWeight(weightMatch, packMatch, priceValue, std) ==
    WithUnitPrice(std.individualWeight,
                  TotalWeight(weightMatch, packMatch, std.individualWeight),
                  std.weightUnit,
                  IF packMatch.found THEN ParseInt(packMatch.m1) ELSE NullNum,
                  priceValue)

\* std is individualWeight and weightUnit as the if (weightMatch) block
\* leaves them
calculateWeightAndPrice(weightMatch, packMatch, priceValue) ==
    WithTotalWeight(weightMatch, packMatch, priceValue,
        IF ~weightMatch.found
        THEN [individualWeight |-> Zero, weightUnit |-> << >>]
        ELSE Standardized(ParseFloat(weightMatch.m1), ToLowerCase(weightMatch.m2)))

\* s.match(/[\d.]+/)[0], or Null when nothing matches
FirstNumberRun(s) ==
    IF \A i \in DOMAIN s : ~InClass(s[i], "DigDot") THEN Null
    ELSE SubSeq(s,
            CHOOSE x \in DOMAIN s :
                InClass(s[x], "DigDot") /\ \A k \in 1..(x - 1) : ~InClass(s[k], "DigDot"),
            RunEnd(s,
                CHOOSE x \in DOMAIN s :
                    InClass(s[x], "DigDot") /\ \A k \in 1..(x - 1) : ~InClass(s[k], "DigDot"),
                "DigDot") - 1)

\* s.replace(/[\d.\s]+/, ''): s without its first run of digits, points and
\* white space
DropFirstNumberRun(s) ==
    IF \A i \in DOMAIN s : ~InClass(s[i], "DigDotSpace") THEN s
    ELSE LET x == CHOOSE x \in DOMAIN s :
                      InClass(s[x], "DigDotSpace")
                          /\ \A k \in 1..(x - 1) : ~InClass(s[k], "DigDotSpace")
         IN  SubSeq(s, 1, x - 1) \o SubSeq(s, RunEnd(s, x, "DigDotSpace"), Len(s))

\* IsVolume holding of no unit: no size is a volume
IsVolume_Never(unit) == FALSE

IsVolume(unit) ==
    \E u \in { Unit.l, Unit.liter, Unit.litre, Unit.ml } : Includes(unit, u)

\* SizeValuesMatch with a match for a size without a number
SizeValuesMatch_MissingNumberMatches(searchNumber, productNumber) ==
    IF searchNumber = Null \/ productNumber = Null THEN TRUE
    ELSE AbsDiffLess(ParseFloat(searchNumber), ParseFloat(productNumber), 1, 10)

\* the comparison of the two numbers found, NaN included
SizeValuesMatch(searchNumber, productNumber) ==
    IF searchNumber = Null \/ productNumber = Null THEN FALSE
    ELSE AbsDiffLess(ParseFloat(searchNumber), ParseFloat(productNumber), 1, 10)

\* compareSizes of the lowercased product size productSizeRaw
SizesMatch(productSizeRaw, size) ==
    /\ SizeValuesMatch(FirstNumberRun(size), FirstNumberRun(productSizeRaw))
    /\ IsVolume(Trim(DropFirstNumberRun(size)))
         <=> IsVolume(Trim(DropFirstNumberRun(productSizeRaw)))

\* searchSize.match(...) is null for a size without a digit or point: the
\* [0] on it throws, and the catch returns false
compareSizes(weightMatch, size) ==
    IF ~weightMatch.found \/ size = Null \/ size = << >> THEN FALSE
    ELSE SizesMatch(ToLowerCase(weightMatch.m0), size)

\* ------------------------------------------------------------------------
\* src/utils/brandUtils.js: checkBrandMatch
\* ------------------------------------------------------------------------

\* word equal to, containing or contained in some brand
WordMatch(word, brands) ==
    \E b \in DOMAIN brands :
        \/ word = brands[b]
        \/ Includes(word, brands[b])
        \/ Includes(brands[b], word)

\* first word of the title equal to, containing or contained in a brand
FirstWordMatch(title, brands) ==
    WordMatch(ToLowerCase(SplitSpaces(title)[1]), brands)

\* EarlyMatch that takes a brand with the first letter of the title
EarlyMatch_FirstLetter(title, brands) ==
    \E b \in DOMAIN brands :
        /\ Len(title) > 0 /\ Len(brands[b]) > 0
        /\ title[1] = brands[b][1]

\* a brand that starts within the first 20 characters of the title
EarlyMatch(title, brands) ==
    \E b \in DOMAIN brands :
        /\ Includes(title, brands[b])
        /\ IndexOf(title, brands[b]) < 20

\* some word of the title equal to, containing or contained in a brand
AnyWordMatch(title, brands) ==
    LET titleWords == SplitSpaces(title)
    IN  \E w \in DOMAIN titleWords : WordMatch(ToLowerCase(titleWords[w]), brands)

\* LowerTitleMatch looking at the first word of the title only
LowerTitleMatch_FirstWordOnly(title, brands) == FirstWordMatch(title, brands)

\* checkBrandMatch of the lowercased title
LowerTitleMatch(title, brands) ==
    \/ FirstWordMatch(title, brands)
    \/ EarlyMatch(title, brands)
    \/ AnyWordMatch(title, brands)

checkBrandMatch(title, brands) ==
    IF title = Null \/ title = << >> \/ Len(brands) = 0 THEN FALSE
    ELSE LowerTitleMatch(ToLowerCase(title), brands)

\* ------------------------------------------------------------------------
\* src/utils/brandUtils.js: detectBrands
\* ------------------------------------------------------------------------

\* "Common generic words to exclude"
genericWords ==
    << <<"l","i","t","e","r">>,
       <<"l","i","t","r","e">>,
       <<"m","l">>,
       <<"k","g">>,
       <<"g","r","a","m">>,
       <<"g","m">>,
       <<"o","z">>,
       <<"i","n","c","h">>,
       <<"c","m">>,
       <<"m","m">>,
       <<"l","i","q","u","i","d">>,
       <<"s","o","a","p">>,
       <<"g","e","l">>,
       <<"p","o","w","d","e","r">>,
       <<"c","r","e","a","m">>,
       <<"o","i","l">>,
       <<"l","o","t","i","o","n">>,
       <<"s","p","r","a","y">>,
       <<"p","a","c","k">>,
       <<"s","e","t">>,
       <<"b","o","x">>,
       <<"c","a","s","e">>,
       <<"b","u","n","d","l","e">>,
       <<"r","e","f","i","l","l">>,
       <<"n","e","w">>,
       <<"f","r","e","s","h">>,
       <<"s","m","a","l","l">>,
       <<"l","a","r","g","e">>,
       <<"m","e","d","i","u","m">>,
       <<"m","i","n","i">>,
       <<"b","i","g">>,
       <<"g","i","a","n","t">>,
       <<"t","i","n","y">>,
       <<"r","e","d">>,
       <<"b","l","u","e">>,
       <<"g","r","e","e","n">>,
       <<"b","l","a","c","k">>,
       <<"w","h","i","t","e">>,
       <<"y","e","l","l","o","w">>,
       <<"p","i","n","k">>,
       <<"w","i","t","h">>,
       <<"a","n","d">>,
       <<"f","o","r">>,
       <<"t","h","e">>,
       <<"b","e","s","t">>,
       <<"p","r","e","m","i","u","m">>,
       <<"q","u","a","l","i","t","y">>,
       <<"v","a","l","u","e">>,
       <<"d","i","s","h","w","a","s","h">>,
       <<"b","a","t","h","i","n","g">>,
       <<"b","a","r">>,
       <<"b","o","t","t","l","e">>,
       <<"c","o","n","t","a","i","n","e","r">>,
       <<"t","u","b","e">>,
       <<"j","a","r">> >>

\* genericWords.includes(word)
IsGeneric(word) == \E g \in DOMAIN genericWords : genericWords[g] = word

\* query.toLowerCase().split(/\s+/).filter(w => w.length > 2)
LongWords(query) ==
    SelectSeq(SplitSpaces(ToLowerCase(query)), LAMBDA w : Len(w) > 2)

\* "First word has high probability of being a brand (if not generic)":
\* potentialBrands after the first push
LeadingBrands(words) ==
    IF Len(words) > 0 /\ ~IsGeneric(words[1]) THEN << words[1] >> ELSE << >>

\* the filter of capitalizedWords: a character that toUpperCase leaves
\* alone, then one that toLowerCase leaves alone
IsCapitalized(word) ==
    /\ Len(word) > 1
    /\ word[1] = UpperChar(word[1])
    /\ word[2] = LowerChar(word[2])
    /\ ~IsGeneric(ToLowerCase(word))

\* capitalizedWords.forEach from the i-th word on: the lowercased word is
\* pushed unless potentialBrands includes it
RECURSIVE PushNormalized(_, _, _)
PushNormalized(brands, capitalized, i) ==
    IF i > Len(capitalized) THEN brands
    ELSE PushNormalized(
            IF \E b \in DOMAIN brands : brands[b] = ToLowerCase(capitalized[i])
            THEN brands
            ELSE Append(brands, ToLowerCase(capitalized[i])),
            capitalized, i + 1)

\* "Look for capitalized words in the original query": potentialBrands
\* after the capitalized words are pushed
ScannedBrands(query) ==
    PushNormalized(LeadingBrands(LongWords(query)),
                   SelectSeq(SplitSpaces(query), IsCapitalized), 1)

\* "If no brands detected yet, try words that aren't generic"
detectBrands(query) ==
    IF Len(ScannedBrands(query)) = 0
    THEN SelectSeq(LongWords(query), LAMBDA w : ~IsGeneric(w))
    ELSE ScannedBrands(query)

\* ------------------------------------------------------------------------
\* src/utils/priceUtils.js: categorizeByPrice
\* ------------------------------------------------------------------------

\* the sort comparator: negative when a sorts before b
ComparePrice(a, b) ==
    IF Truthy(a.unitPrice) /\ Truthy(b.unitPrice)
    THEN CompareNum(a.unitPrice, b.unitPrice)
    ELSE IF Truthy(a.unitPrice) THEN -1
    ELSE IF Truthy(b.unitPrice) THEN 1
    ELSE CompareNum(extractNumericPrice(a.price), extractNumericPrice(b.price))

\* x put into the sorted sequence, behind the elements that do not sort after it
InsertSorted(sorted, x) ==
    LET at == CHOOSE i \in 0..Len(sorted) :
                  /\ \A k \in 1..i : ComparePrice(x, sorted[k]) >= 0
                  /\ i < Len(sorted) => ComparePrice(x, sorted[i + 1]) < 0
    IN  SubSeq(sorted, 1, at) \o << x >> \o SubSeq(sorted, at + 1, Len(sorted))

\* [...products].sort(comparator): Array.prototype.sort is stable
RECURSIVE SortByPrice(_)
SortByPrice(products) ==
    IF products = << >> THEN << >>
    ELSE InsertSorted(SortByPrice(SubSeq(products, 1, Len(products) - 1)),
                      products[Len(products)])

\* CategoryAt giving the only record of a bucket 'medium'
CategoryAt_SingleMedium(p, n) ==
    IF n = 1 THEN "medium"
    ELSE IF p = 1 THEN "cheapest"
    ELSE IF p = n THEN "expensive"
    ELSE "medium"

\* the category written for position p of n sorted products
CategoryAt(p, n) ==
    IF n = 1 THEN "cheapest"
    ELSE IF n = 2 THEN (IF p = 1 THEN "cheapest" ELSE "expensive")
    ELSE IF p = 1 THEN "cheapest"
    ELSE IF p = n THEN "expensive"
    ELSE "medium"

\* the result object: property name (the product's id) -> category.  The
\* writes run over the sorted positions in ascending order, so a later
\* position with the same id overwrites an earlier one.
CategoriesOf(sortedProducts) ==
    [key \in { sortedProducts[p].id : p \in DOMAIN sortedProducts } |->
        CategoryAt(CHOOSE p \in DOMAIN sortedProducts :
                       /\ sortedProducts[p].id = key
                       /\ \A q \in (p + 1)..Len(sortedProducts) :
                            sortedProducts[q].id # key,
                   Len(sortedProducts))]

categorizeByPrice(products) == CategoriesOf(SortByPrice(products))

\* ------------------------------------------------------------------------
\* Records
\* ------------------------------------------------------------------------

\* a link as the adapters build it from a product page address
ProductLink == <<"h","t","t","p","s",":","/","/","x">>

\* raw records as the adapters build them, { platform, title, price, link }:
\* title and price are the trimmed text of the scraped elements.  These
\* are the records of the arrays of every length.
CoreRecords ==
    <<
      [platform |-> "Amazon",
       title |-> <<"D","o","v","e"," ","S","o","a","p"," ","1","0","0","g">>,
       price |-> <<"U+20B9","5","0">>,
       link |-> ProductLink],
      [platform |-> "Amazon",
       title |-> <<"L","i","f","e","b","u","o","y"," ","S","o","a","p"," ",
                   "1","0","0","g">>,
       price |-> <<"U+20B9","4","5">>,
       link |-> ProductLink],
      [platform |-> "Flipkart",
       title |-> <<"S","o","a","p"," ","1","0","0","g">>,
       price |-> <<"U+20B9","5","0">>,
       link |-> ProductLink],
      [platform |-> "Flipkart",
       title |-> <<"D","O","V","E"," ","S","O","A","P"," ","1","0","0","G">>,
       price |-> <<"U+20B9","5","0">>,
       link |-> ProductLink],
      [platform |-> "Meesho",
       title |-> <<"D","o","v","e"," ","S","h","a","m","p","o","o"," ","1",
                   ".","5","L">>,
       price |-> <<"U+20B9","1",",","2","9","9",".","5","0">>,
       link |-> ProductLink],
      [platform |-> "Meesho",
       title |-> <<"D","o","v","e"," ","P","a","c","k"," ","o","f"," ","4",
                   ","," ","1","0","0","g"," ","e","a","c","h">>,
       price |-> <<"U+20B9","4","9","9"," ","(","w","a","s"," ","U+20B9",
                   "5","9","9",")">>,
       link |-> ProductLink],
      [platform |-> "Blinkit",
       title |-> <<"D","o","v","e"," ","B","a","r">>,
       price |-> <<"U+20B9","1","0">>,
       link |-> ProductLink],
      [platform |-> "Blinkit",
       title |-> <<"D","o","v","e"," ","S","o","a","p"," ","1","0","0","g">>,
       price |-> <<"N","/","A">>,
       link |-> ProductLink],
      [platform |-> "Zepto",
       title |-> <<"D","o","v","e"," ","R","i","c","e"," ","2","k","g">>,
       price |-> <<"U+20B9","1","2","0">>,
       link |-> ProductLink],
      [platform |-> "Zepto",
       title |-> <<"L","i","f","e","b","u","o","y"," ","B","a","r">>,
       price |-> <<"N","/","A">>,
       link |-> ProductLink],
      [platform |-> "Amazon",
       title |-> <<"D","o","v","e","_","1">>,
       price |-> <<"2">>,
       link |-> ProductLink],
      [platform |-> "Amazon",
       title |-> <<"D","o","v","e">>,
       price |-> <<"1","_","2">>,
       link |-> ProductLink]
    >>

\* further raw records, of the one-record arrays: the other ways a title
\* writes a unit or a pack, and prices and weights without a value
ExtraRecords ==
    <<
      [platform |-> "Amazon",
       title |-> <<"D","o","v","e"," ","S","a","l","t"," ","5","0","0","g",
                   "m">>,
       price |-> <<"U+20B9","2","0">>,
       link |-> ProductLink],
      [platform |-> "Flipkart",
       title |-> <<"D","o","v","e"," ","A","t","t","a"," ","2","5","0"," ",
                   "g","r","a","m">>,
       price |-> <<"U+20B9","3","0">>,
       link |-> ProductLink],
      [platform |-> "Meesho",
       title |-> <<"D","o","v","e"," ","G","e","l"," ","2","0","0","m","l">>,
       price |-> <<"U+20B9","9","9">>,
       link |-> ProductLink],
      [platform |-> "Blinkit",
       title |-> <<"D","o","v","e"," ","O","i","l"," ","2","-","l","i","t",
                   "e","r">>,
       price |-> <<"U+20B9","3","0","0">>,
       link |-> ProductLink],
      [platform |-> "Zepto",
       title |-> <<"D","o","v","e"," ","M","i","l","k"," ","1"," ","L","i",
                   "t","r","e">>,
       price |-> <<"U+20B9","6","0">>,
       link |-> ProductLink],
      [platform |-> "Amazon",
       title |-> <<"D","o","v","e"," ","S","o","a","p","."," ","G","e","n",
                   "t","l","e">>,
       price |-> <<"U+20B9","3","0">>,
       link |-> ProductLink],
      [platform |-> "Flipkart",
       title |-> <<"D","o","v","e"," ","G","e","l"," ","5","0","g">>,
       price |-> <<"N","/","A">>,
       link |-> ProductLink],
      [platform |-> "Meesho",
       title |-> <<"D","o","v","e"," ","S","o","a","p"," ","1","0","0","g">>,
       price |-> <<"U+20B9","0">>,
       link |-> ProductLink],
      [platform |-> "Blinkit",
       title |-> <<"4"," ","x"," ","1","0","0","g"," ","D","o","v","e">>,
       price |-> <<"U+20B9","2","0","0">>,
       link |-> ProductLink],
      [platform |-> "Zepto",
       title |-> <<"D","o","v","e"," ","3"," ","p","c"," ","7","5","g">>,
       price |-> <<"U+20B9","9","0">>,
       link |-> ProductLink],
      [platform |-> "Amazon",
       title |-> <<"D","o","v","e"," ","S","e","t"," ","o","f"," ","2"," ",
                   "1","k","g">>,
       price |-> <<"U+20B9","4","0","0">>,
       link |-> ProductLink],
      [platform |-> "Flipkart",
       title |-> <<"D","o","v","e"," ","6"," ","p","a","c","k"," ","2","L">>,
       price |-> <<"U+20B9","5","4","0">>,
       link |-> ProductLink],
      [platform |-> "Meesho",
       title |-> <<"D","o","v","e"," ","P","a","c","k"," ","o","f"," ","0",
                   " ","1","0","0","g">>,
       price |-> <<"U+20B9","5","0">>,
       link |-> ProductLink],
      [platform |-> "Blinkit",
       title |-> <<"D","o","v","e"," ","P","a","c","k"," ","o","f"," ","3">>,
       price |-> <<"U+20B9","7","5">>,
       link |-> ProductLink]
    >>

\* what the adapters find on a page that lacks a part: no address on the
\* element (the link is ''), an address that is no absolute URL, no title,
\* no price
DeficientRecords ==
    <<
      [platform |-> "Flipkart",
       title |-> <<"D","o","v","e"," ","C","r","e","a","m"," ","5","0","g">>,
       price |-> <<"U+20B9","8","0">>,
       link |-> << >>],
      [platform |-> "Amazon",
       title |-> <<"D","o","v","e"," ","L","o","t","i","o","n"," ","2","0","0","m","l">>,
       price |-> <<"U+20B9","1","5","0">>,
       link |-> <<"/","/","a","m","a","z","o","n",".","i","n","/","x">>],
      [platform |-> "Meesho",
       title |-> << >>,
       price |-> <<"U+20B9","5">>,
       link |-> ProductLink],
      [platform |-> "Zepto",
       title |-> <<"D","o","v","e"," ","W","a","s","h">>,
       price |-> << >>,
       link |-> ProductLink]
    >>

RawRecords == CoreRecords \o ExtraRecords \o DeficientRecords

\* the object of raw record r as an adapter pushes it; id is the name of the
\* property categorizeByPrice writes for it ("undefined" when the object has
\* no id, as the adapters build it)
NewItem(r, id) ==
    [platform |-> RawRecords[r].platform,
     title |-> RawRecords[r].title,
     price |-> RawRecords[r].price,
     link |-> RawRecords[r].link,
     id |-> id,
     weightInfo |-> Null, packInfo |-> Null, features |-> << >>,
     unitPrice |-> NullNum, unitPriceFormatted |-> Null,
     attributes |->
        [weight |-> Null, individualWeight |-> NullNum, totalWeight |-> NullNum,
         weightUnit |-> Null, packSize |-> NullNum, priceValue |-> NullNum,
         unitPrice |-> NullNum, unitPriceFormatted |-> Null, features |-> << >>],
     priceCategory |-> "undefined"]

\* ------------------------------------------------------------------------
\* Inputs
\* ------------------------------------------------------------------------

\* longest array of records handed to the pipeline
MaxRecords == 3

\* the product parameters of the /search requests
Queries ==
    { <<"d","o","v","e">>,
      <<"d","o","v","e"," ","s","o","a","p","(","1","0","0","g",")">>,
      <<"d","o","v","e"," ","1","0","0","g">>,
      <<"d","o","v","e"," ","r","i","c","e"," ","2"," ","k","g">>,
      <<"o","i","l"," ","2"," ","l">>,
      <<"l","i","f","e","b","u","o","y"," ","D","o","v","e">> }

\* "Extract specific size/volume if mentioned in search query"
SearchSizeOf(product) ==
    IF extractWeight(product).found
    THEN ToLowerCase(extractWeight(product).m0)
    ELSE Null

\* the (potentialBrands, searchSize) pairs of the calls of categorizeResults:
\* those of the /search handler, and a call by another caller with a
\* searchSize that holds no number
Contexts ==
    { << detectBrands(q), SearchSizeOf(q) >> : q \in Queries }
        \cup { << << <<"d","o","v","e">> >>, Unit.kg >> }

\* the name of the property that categorizeByPrice writes for an object
\* without an id: result[undefined] is result["undefined"]
UndefinedKey == <<"u","n","d","e","f","i","n","e","d">>

\* ------------------------------------------------------------------------
\* src/utils/resultUtils.js
\* ------------------------------------------------------------------------

\* the subsequence of s at the positions of keep, in order
RECURSIVE PickFrom(_, _, _)
PickFrom(s, keep, i) ==
    IF i > Len(s) THEN << >>
    ELSE (IF i \in keep THEN << s[i] >> ELSE << >>) \o PickFrom(s, keep, i + 1)

\* the key of removeDuplicates: `${item.title.toLowerCase()}_${item.price}`
DedupKey(item) == ToLowerCase(item.title) \o <<"_">> \o item.price

\* the positions results.filter keeps: those whose key was not seen before
KeptPositions(objs) ==
    { i \in DOMAIN objs : \A k \in 1..(i - 1) : DedupKey(objs[k]) # DedupKey(objs[i]) }

removeDuplicates(objs) == PickFrom(objs, KeptPositions(objs), 1)

\* the object with the fields the callback of results.forEach writes on it
WriteFields(item, weightInfo, packInfo, priceValue, features, calc) ==
    [item EXCEPT
        !.weightInfo = weightInfo,
        !.packInfo = packInfo,
        !.features = features,
        !.unitPrice = calc.unitPrice,
        !.unitPriceFormatted = calc.unitPriceFormatted,
        !.attributes =
            [weight |-> weightInfo,
             individualWeight |-> calc.individualWeight,
             totalWeight |-> calc.totalWeight,
             weightUnit |-> calc.weightUnit,
             packSize |-> calc.packSize,
             priceValue |-> IF Truthy(priceValue) THEN priceValue ELSE Zero,
             unitPrice |-> calc.unitPrice,
             unitPriceFormatted |-> calc.unitPriceFormatted,
             features |-> features]]

\* match ? match[0] : null
MatchedText(m) == IF m.found THEN m.m0 ELSE Null

WithAttributes(item, weightMatch, packMatch, priceValue, features) ==
    WriteFields(item, MatchedText(weightMatch), MatchedText(packMatch),
                priceValue, features,
                calculateWeightAndPrice(weightMatch, packMatch, priceValue))

\* the body of results.forEach in categorizeResults up to the decision: the
\* object with the fields the callback writes on it
DerivedFields(item) ==
    LET title == ToLowerCase(item.title)
    IN  WithAttributes(item, extractWeight(title), extractPackSize(title),
                       extractNumericPrice(item.price), extractFeatures(title))

\* isExactMatch, for the brand match and the weight match of the title
IsExactMatch(isExactBrandMatch, weightMatch, size) ==
    IF isExactBrandMatch /\ size # Null /\ size # << >> /\ weightMatch.found
    THEN compareSizes(weightMatch, size)
    ELSE isExactBrandMatch

\* IsExactMatch without the size comparison: the brand alone decides
IsExactMatchOfTitle_BrandOnly(title, brands, size) ==
    checkBrandMatch(title, brands)

\* IsExactMatch comparing sizes whenever the search has a size, whether
\* or not a weight was found in the title
IsExactMatchOfTitle_SizeRequired(title, brands, size) ==
    IF checkBrandMatch(title, brands) /\ size # Null /\ size # << >>
    THEN compareSizes(extractWeight(title), size)
    ELSE checkBrandMatch(title, brands)

\* isExactMatch of the callback, for the lowercased title
IsExactMatchOfTitle(title, brands, size) ==
    IsExactMatch(checkBrandMatch(title, brands), extractWeight(title), size)

\* the whole callback of results.forEach: the object as it leaves it, and
\* isExactMatch, which decides the array the object is pushed to. The
\* callback reads the title and the price of the object and nothing else
\* of it: its results for the raw records and the arguments of the calls
ProcessedRecords ==
    [k \in (DOMAIN RawRecords) \X Contexts |->
        [item |-> DerivedFields(NewItem(k[1], UndefinedKey)),
         isExactMatch |->
            IsExactMatchOfTitle(ToLowerCase(NewItem(k[1], UndefinedKey).title),
                                k[2][1], k[2][2])]] @@ << >>

\* the raw record an object was built from
RawOf(item) ==
    CHOOSE r \in DOMAIN RawRecords :
        RawRecords[r].title = item.title /\ RawRecords[r].price = item.price

\* ProcessItem(item, brands, size), read from ProcessedRecords
Processed(item, brands, size) ==
    [item |-> [ProcessedRecords[<< RawOf(item), << brands, size >> >>].item EXCEPT
                  !.id = item.id, !.platform = item.platform, !.link = item.link],
     isExactMatch |->
        ProcessedRecords[<< RawOf(item), << brands, size >> >>].isExactMatch]

\* item.priceCategory = categories[item.id] || 'medium'
WithPriceCategory(item, categories) ==
    [item EXCEPT !.priceCategory =
        IF item.id \in DOMAIN categories THEN categories[item.id] ELSE "medium"]

\* the positions of the sequence flags of booleans that hold b, in
\* ascending order: what forEach pushes, one position at a time
PositionsOf(flags, b) ==
    SelectSeq([i \in DOMAIN flags |-> i], LAMBDA i : flags[i] = b)

\* the elements of s at the positions listed in at
AtPositions(s, at) == [k \in DOMAIN at |-> s[at[k]]]

\* the objects with their price categories, and the positions pushed to
\* exactMatches and to alternatives
WithCategories(derived, isExactMatch, exactAt, altAt, exactCategories, altCategories) ==
    [objs |-> [i \in DOMAIN derived |->
                  WithPriceCategory(derived[i],
                      IF isExactMatch[i] THEN exactCategories ELSE altCategories)],
     exactAt |-> exactAt,
     altAt |-> altAt]

\* "Categorize by price within each group"
Categorized(derived, isExactMatch, exactAt, altAt) ==
    WithCategories(derived, isExactMatch, exactAt, altAt,
                   categorizeByPrice(AtPositions(derived, exactAt)),
                   categorizeByPrice(AtPositions(derived, altAt)))

\* Pushed pushing every object to alternatives, the exact matches too
Pushed_All(derived, isExactMatch) ==
    Categorized(derived, isExactMatch,
                PositionsOf(isExactMatch, TRUE), [i \in DOMAIN derived |-> i])

\* "Categorize based on matches": each object is pushed to exactMatches or
\* to alternatives
Pushed(derived, isExactMatch) ==
    Categorized(derived, isExactMatch,
                PositionsOf(isExactMatch, TRUE), PositionsOf(isExactMatch, FALSE))

\* categorizeResults on the array objs of objects: the objects as it leaves
\* them (objs[i] is mutated in place), and the positions of objs in the
\* order it pushes them to exactMatches and to alternatives
categorizeResults(objs, brands, size) ==
    Pushed([i \in DOMAIN objs |-> Processed(objs[i], brands, size).item],
           [i \in DOMAIN objs |-> Processed(objs[i], brands, size).isExactMatch])

\* ------------------------------------------------------------------------
\* src/server.js: the adapters and the /search handler
\* ------------------------------------------------------------------------

\* String.prototype.split(' '): the pieces of s from i on, between single spaces
RECURSIVE SplitAtSpace(_, _)
SplitAtSpace(s, i) ==
    IF RunEnd(s, i, "NonSpace") > Len(s) THEN << SubSeq(s, i, Len(s)) >>
    ELSE << SubSeq(s, i, RunEnd(s, i, "NonSpace") - 1) >>
           \o SplitAtSpace(s, RunEnd(s, i, "NonSpace") + 1)

\* the adapters, in the order the handler reads their results
Platforms == << "Amazon", "Flipkart", "Meesho", "Blinkit", "Zepto" >>

\* whether the adapter of its platform pushes the element el it found:
\* if (title && price), and "Filter out non-relevant products" of the
\* Blinkit and Zepto adapters
AdapterPushes(el, product) ==
    /\ el.title # << >>
    /\ el.price # << >>
    /\ el.platform \in { "Blinkit", "Zepto" }
         => \/ Includes(ToLowerCase(el.title), ToLowerCase(product))
            \/ \E w \in DOMAIN SplitAtSpace(ToLowerCase(product), 1) :
                   Includes(ToLowerCase(el.title),
                            SplitAtSpace(ToLowerCase(product), 1)[w])

\* results.slice(0, 5)
FirstFive(arr) == SubSeq(arr, 1, IF Len(arr) < 5 THEN Len(arr) ELSE 5)

\* what the adapter of a platform returns of the elements found (arr holds
\* identities, heap the objects)
ReturnedBy(platform, arr, heap, product) ==
    FirstFive(SelectSeq(arr, LAMBDA o :
        heap[o].platform = platform /\ AdapterPushes(heap[o], product)))

\* a string that is neither missing nor empty nor white space only
Present(s) == s # Null /\ s # << >> /\ Trim(s) # << >>

\* the filter of validateResults without the tests of the link
IsValidResult_NoLinkTest(item) == Present(item.title) /\ Present(item.price)

\* the filter of validateResults
IsValidResult(item) ==
    /\ Present(item.link)
    /\ OccursAt(item.link, 1, <<"h","t","t","p">>)
    /\ Present(item.title)
    /\ Present(item.price)

validateResults(arr, heap) == SelectSeq(arr, LAMBDA o : IsValidResult(heap[o]))

\* allResults: the validated results of the adapters, from the n-th on
RECURSIVE AllResults(_, _, _, _)
AllResults(arr, heap, product, n) ==
    IF n > Len(Platforms) THEN << >>
    ELSE validateResults(ReturnedBy(Platforms[n], arr, heap, product), heap)
           \o AllResults(arr, heap, product, n + 1)

\* removeDuplicates on an array of identities
UniqueOf(arr, heap) ==
    PickFrom(arr, KeptPositions([i \in DOMAIN arr |-> heap[arr[i]]]), 1)

\* combinedResults: removeDuplicates(allResults.filter(platform)) of each
\* platform from the n-th on, one behind the other
RECURSIVE CombinedFrom(_, _, _)
CombinedFrom(allResults, heap, n) ==
    IF n > Len(Platforms) THEN << >>
    ELSE UniqueOf(SelectSeq(allResults, LAMBDA o : heap[o].platform = Platforms[n]),
                  heap)
           \o CombinedFrom(allResults, heap, n + 1)

combinedResults(arr, heap, product) ==
    CombinedFrom(AllResults(arr, heap, product, 1), heap, 1)

\* ------------------------------------------------------------------------
\* src/server.js: apiKeyAuth, cacheMiddleware and the routes
\* ------------------------------------------------------------------------

SearchPath == <<"/","s","e","a","r","c","h">>

ClearPath ==
    <<"/","a","d","m","i","n","/","c","a","c","h","e","/","c","l","e","a","r">>

\* process.env.API_KEY || 'where-to-buy-test-api-key'
validApiKey == "where-to-buy-test-api-key"

\* req.query.product of ?product=a&product=b: an array, not a string
ProductArray == << "<array>" >>

\* app.use(mount, middleware) runs the middleware for the paths at or below
\* the mount point
IsMounted(path, mount) ==
    /\ StartsWithAt(path, 1, mount)
    /\ Len(path) = Len(mount) \/ path[Len(mount) + 1] = "/"

\* req.path as a middleware mounted at mount reads it: the mount point is
\* stripped, and '/' is left of the mount point itself
MountedPath(path, mount) ==
    IF Len(path) = Len(mount) THEN <<"/">>
    ELSE SubSeq(path, Len(mount) + 1, Len(path))

\* apiKeyAuth mounted at mount: TRUE when it calls next(), FALSE when it
\* answers 401. "Skip authentication for frontend and documentation
\* routes" reads req.path; apiKey is
\* req.headers['x-api-key'] || req.query.api_key
apiKeyAuth(req, mount) ==
    LET path == MountedPath(req.path, mount)
        apiKey == IF req.header # "" THEN req.header ELSE req.query
    IN  \/ path = <<"/">>
        \/ path = <<"/","h","e","a","l","t","h">>
        \/ StartsWithAt(path, 1, <<"/","a","p","i","-","d","o","c","s">>)
        \/ Includes(path, <<".">>)
        \/ ~(apiKey = "" \/ apiKey # validApiKey)

\* the two app.use(..., apiKeyAuth), in order: TRUE when the request gets
\* past them
Authenticated(req) ==
    /\ IsMounted(req.path, SearchPath) => apiKeyAuth(req, SearchPath)
    /\ IsMounted(req.path, <<"/","a","d","m","i","n">>)
         => apiKeyAuth(req, <<"/","a","d","m","i","n">>)

\* req.originalUrl, the key of the cache: the path and the query string
\* (the product parameter and the api_key parameter)
OriginalUrl(req) == << req.path, req.product, req.query >>

\* a response body: of the /search handler (kind "results", "missing" for
\* the 400 answer, "failed" for the 500 answer), of apiKeyAuth
\* ("unauthorized"), of /admin/cache/clear ("cleared"); "none" for no body
Body(kind, product, sources, exact, alt) ==
    [kind |-> kind, query |-> product, sources |-> sources,
     count |-> Len(exact) + Len(alt), exactMatches |-> exact, alternatives |-> alt]

\* a body without results: of kind "none", "unauthorized", "cleared",
\* "missing" or "failed"
PlainBody(kind) ==
    Body(kind, Null, [n \in DOMAIN Platforms |-> 0], << >>, << >>)

\* the elements of the pages whose adapter got its page
ElementsOf(arr, heap, adapters) ==
    SelectSeq(arr, LAMBDA o :
        \E n \in DOMAIN Platforms :
            Platforms[n] = heap[o].platform /\ adapters[n] = "fulfilled")

\* sources: the number of validated results of each platform
SourcesOf(arr, heap, product) ==
    [n \in DOMAIN Platforms |->
        Len(validateResults(ReturnedBy(Platforms[n], arr, heap, product), heap))]

\* ------------------------------------------------------------------------
\* State
\* ------------------------------------------------------------------------

VARIABLES
    items,            \* the record objects, by identity: items[o] is object o
    results,          \* the array handed to the next call: object identities
    dedupInput,       \* the array removeDuplicates received
    potentialBrands,  \* arguments of the last categorizeResults call
    searchSize,
    exactMatches,     \* the arrays categorizeResults returned
    alternatives,
    pc,               \* "ready", "deduped" or "categorized"; "listening" or
                      \* "responded" for the server; "call" for a single call
    scraped,          \* the elements the adapters find for the request
    request,          \* the product parameter of the /search request
    call,             \* a call of one function: its arguments and results
    server            \* the process: its cache, the request it works on, the
                      \* adapters it waits for, the response

vars == << items, results, dedupInput, potentialBrands, searchSize,
           exactMatches, alternatives, pc, scraped, request, call, server >>

\* the objects of an array of identities
Deref(arr) == [i \in DOMAIN arr |-> items[arr[i]]]

\* no call of a single function
NoCall ==
    [fn |-> "none", text |-> Null, size |-> Null, value |-> JsValue("null", Null, NullNum),
     steps |-> 0, number |-> NullNum, formatted |-> Null, previous |-> Null,
     match |-> FALSE, leading |-> << >>, scanned |-> << >>, brands |-> << >>,
     weight |-> NoMatch]

\* the process after app.listen, before its first request
Listening ==
    [alive |-> TRUE,
     cache |-> { },
     req |-> [path |-> << >>, header |-> "", query |-> "", product |-> Null],
     adapters |-> [n \in DOMAIN Platforms |-> "idle"],
     status |-> 0,
     body |-> PlainBody("none"),
     reached |-> { },
     served |-> 0]

\* no request and no call
Idle ==
    /\ server = Listening
    /\ dedupInput = << >>
    /\ potentialBrands = << >>
    /\ searchSize = Null
    /\ exactMatches = << >>
    /\ alternatives = << >>
    /\ request = Null

\* the argument of the calls: an array of up to MaxRecords core records, or
\* of one further record
Init ==
    \E f \in UNION { [1..n -> DOMAIN CoreRecords] : n \in 0..MaxRecords }
                \cup { << r >> : r \in DOMAIN RawRecords } :
        /\ items = [i \in DOMAIN f |-> NewItem(f[i], UndefinedKey)]
        /\ results = [i \in DOMAIN f |-> i]
        /\ Idle
        /\ pc = "ready"
        /\ scraped = << >>
        /\ call = NoCall

\* removeDuplicates(results); the caller goes on with the array it returns
RemoveDuplicates ==
    /\ pc = "ready"
    /\ dedupInput' = results
    /\ results' = PickFrom(results, KeptPositions(Deref(results)), 1)
    /\ pc' = "deduped"
    /\ UNCHANGED << items, potentialBrands, searchSize, exactMatches, alternatives,
                    scraped, request, call, server >>

\* the writes of categorizeResults(arr, brands, size), r what it returns
Categorize(arr, brands, size, r) ==
    /\ items' = [o \in DOMAIN items |->
                    IF \E i \in DOMAIN arr : arr[i] = o
                    THEN r.objs[CHOOSE i \in DOMAIN arr : arr[i] = o]
                    ELSE items[o]]
    /\ exactMatches' = AtPositions(arr, r.exactAt)
    /\ alternatives' = AtPositions(arr, r.altAt)
    /\ potentialBrands' = brands
    /\ searchSize' = size

\* categorizeResults(results, brands, size)
CategorizeResults(brands, size) ==
    /\ pc \in { "ready", "deduped" }
    /\ \E r \in { categorizeResults(Deref(results), brands, size) } :
        Categorize(results, brands, size, r)
    /\ pc' = "categorized"
    /\ UNCHANGED << results, dedupInput, scraped, request, call, server >>

Next ==
    \/ RemoveDuplicates
    \/ \E c \in Contexts : CategorizeResults(c[1], c[2])

Spec == Init /\ [][Next]_vars

\* ------------------------------------------------------------------------
\* The server: GET /search
\* ------------------------------------------------------------------------

\* the elements found for a request: up to MaxRecords records of the
\* pages the adapters scrape
ServerInit ==
    \E f \in UNION { [1..n -> { 1, 2, 3, 4, 7 }
                               \cup { Len(CoreRecords) + Len(ExtraRecords) + d :
                                         d \in DOMAIN DeficientRecords }] :
                      n \in 0..MaxRecords } :
        /\ items = [i \in DOMAIN f |-> NewItem(f[i], UndefinedKey)]
        /\ scraped = [i \in DOMAIN f |-> i]
        /\ results = << >>
        /\ Idle
        /\ pc = "listening"
        /\ call = NoCall

\* GET /search?product=..., answered with status 200
Search(product) ==
    /\ pc = "listening"
    /\ product # Null /\ product # << >>
    /\ \E combined \in { combinedResults(scraped, items, product) } :
        /\ \E r \in { categorizeResults(Deref(combined), detectBrands(product),
                                        SearchSizeOf(product)) } :
            Categorize(combined, detectBrands(product), SearchSizeOf(product), r)
        /\ results' = combined
    /\ request' = product
    /\ pc' = "responded"
    /\ UNCHANGED << dedupInput, scraped, call, server >>

ServerNext == \E product \in Queries : Search(product)

ServerSpec == ServerInit /\ [][ServerNext]_vars

\* ------------------------------------------------------------------------
\* The service: requests one after the other
\* ------------------------------------------------------------------------

\* most requests of a run; the limiter of express-rate-limit allows 100
\* requests in 15 minutes, so it refuses none of them
MaxRequests == 2

\* GET /search without product, with product=dove, with product twice; GET
\* /admin/cache/clear; each with an x-api-key header and an api_key
\* parameter ("": none)
Requests ==
    { [path |-> p[1], header |-> c[1], query |-> c[2], product |-> p[2]] :
          c \in { << "", "" >>, << validApiKey, "" >>, << "", validApiKey >>,
                  << "", "guess" >> },
          p \in ({ SearchPath } \X { Null, <<"d","o","v","e">>, ProductArray })
                    \cup { << ClearPath, Null >> } }

\* the pages of the five platforms hold one element each, the raw records
\* 1, 4, 5, 7 and 9
ServiceInit ==
    /\ items = [i \in 1..5 |-> NewItem(<< 1, 4, 5, 7, 9 >>[i], UndefinedKey)]
    /\ scraped = [i \in 1..5 |-> i]
    /\ results = << >>
    /\ Idle
    /\ pc = "idle"
    /\ call = NoCall

\* the process can take the next request
Accepting ==
    /\ pc \in { "idle", "answered" }
    /\ server.alive
    /\ server.served < MaxRequests

\* the process as request req arrives, having passed the middleware named
Arrived(req, reached) ==
    [server EXCEPT !.req = req, !.served = @ + 1, !.reached = reached,
                   !.status = 0, !.body = PlainBody("none"),
                   !.adapters = [n \in DOMAIN Platforms |-> "idle"]]

\* cache.get(key): the body stored under the key, a body of kind "none"
\* when there is none
Cached(cache, key) ==
    IF \E e \in cache : e[1] = key
    THEN (CHOOSE e \in cache : e[1] = key)[2]
    ELSE PlainBody("none")

\* cache.set(key, body)
CacheSet(cache, key, body) ==
    { e \in cache : e[1] # key } \cup { << key, body >> }

\* apiKeyAuth answers 401
Refuse(req) ==
    /\ Accepting
    /\ ~Authenticated(req)
    /\ server' = [Arrived(req, { "apiKeyAuth" }) EXCEPT
                     !.status = 401,
                     !.body = PlainBody("unauthorized")]
    /\ pc' = "answered"
    /\ UNCHANGED << items, results, dedupInput, potentialBrands, searchSize,
                    exactMatches, alternatives, scraped, request, call >>

\* GET /admin/cache/clear: cache.flushAll()
ClearCache(req) ==
    /\ Accepting
    /\ Authenticated(req)
    /\ req.path = ClearPath
    /\ server' = [Arrived(req, { "apiKeyAuth", "flushAll" }) EXCEPT
                     !.cache = { },
                     !.status = 200,
                     !.body = PlainBody("cleared")]
    /\ pc' = "answered"
    /\ UNCHANGED << items, results, dedupInput, potentialBrands, searchSize,
                    exactMatches, alternatives, scraped, request, call >>

\* GET /search, cache hit: res.json(cachedResponse)
Replay(req) ==
    /\ Accepting
    /\ Authenticated(req)
    /\ req.path = SearchPath
    /\ Cached(server.cache, OriginalUrl(req)) # PlainBody("none")
    /\ server' = [Arrived(req, { "apiKeyAuth", "cacheMiddleware" }) EXCEPT
                     !.status = 200,
                     !.body = Cached(server.cache, OriginalUrl(req))]
    /\ pc' = "answered"
    /\ UNCHANGED << items, results, dedupInput, potentialBrands, searchSize,
                    exactMatches, alternatives, scraped, request, call >>

\* GET /search, cache miss, no product: res.status(400).json(...), through
\* the json method the cache middleware has put on res
Missing(req) ==
    /\ Accepting
    /\ Authenticated(req)
    /\ req.path = SearchPath
    /\ Cached(server.cache, OriginalUrl(req)) = PlainBody("none")
    /\ req.product = Null
    /\ server' = [Arrived(req, { "apiKeyAuth", "cacheMiddleware", "handler" }) EXCEPT
                     !.status = 400,
                     !.body = PlainBody("missing"),
                     !.cache = CacheSet(@, OriginalUrl(req),
                                        PlainBody("missing"))]
    /\ pc' = "answered"
    /\ UNCHANGED << items, results, dedupInput, potentialBrands, searchSize,
                    exactMatches, alternatives, scraped, request, call >>

\* GET /search, cache miss, with product: the timer is set, the five
\* adapters are called, the handler awaits Promise.allSettled.  An adapter
\* called with an array throws at formatQuery and has failed at once.
Scrape(req) ==
    /\ Accepting
    /\ Authenticated(req)
    /\ req.path = SearchPath
    /\ Cached(server.cache, OriginalUrl(req)) = PlainBody("none")
    /\ req.product # Null
    /\ server' = [Arrived(req, { "apiKeyAuth", "cacheMiddleware", "handler", "adapters" })
                    EXCEPT !.adapters =
                        [n \in DOMAIN Platforms |->
                            IF req.product = ProductArray THEN "failed" ELSE "pending"]]
    /\ pc' = "awaiting"
    /\ UNCHANGED << items, results, dedupInput, potentialBrands, searchSize,
                    exactMatches, alternatives, scraped, request, call >>

\* adapter n gets its page and returns its results
Fulfil(n) ==
    /\ pc = "awaiting"
    /\ server.adapters[n] = "pending"
    /\ server' = [server EXCEPT !.adapters[n] = "fulfilled"]
    /\ UNCHANGED << items, results, dedupInput, potentialBrands, searchSize,
                    exactMatches, alternatives, pc, scraped, request, call >>

\* the request of adapter n fails: catch (err) { return []; }
Reject(n) ==
    /\ pc = "awaiting"
    /\ server.adapters[n] = "pending"
    /\ server' = [server EXCEPT !.adapters[n] = "failed"]
    /\ UNCHANGED << items, results, dedupInput, potentialBrands, searchSize,
                    exactMatches, alternatives, pc, scraped, request, call >>

\* the handler behind the await for a product string: status 200, stored
\* in the cache by the json method of the cache middleware
RespondResults(arr, product, r) ==
    /\ Categorize(arr, detectBrands(product), SearchSizeOf(product), r)
    /\ results' = arr
    /\ request' = product
    /\ server' = [server EXCEPT
                     !.status = 200,
                     !.body = Body("results", product,
                                   SourcesOf(ElementsOf(scraped, items, server.adapters),
                                             items, product),
                                   AtPositions(r.objs, r.exactAt),
                                   AtPositions(r.objs, r.altAt)),
                     !.cache = CacheSet(@, OriginalUrl(server.req),
                                   Body("results", product,
                                        SourcesOf(ElementsOf(scraped, items, server.adapters),
                                                  items, product),
                                        AtPositions(r.objs, r.exactAt),
                                        AtPositions(r.objs, r.altAt)))]
    /\ pc' = "answered"
    /\ UNCHANGED << dedupInput, scraped, call >>

\* every adapter has settled: clearTimeout, and the response is built
Complete ==
    /\ pc = "awaiting"
    /\ \A n \in DOMAIN Platforms : server.adapters[n] # "pending"
    /\ server.req.product # ProductArray
    /\ \E arr \in { combinedResults(ElementsOf(scraped, items, server.adapters),
                                    items, server.req.product) } :
        \E r \in { categorizeResults(Deref(arr), detectBrands(server.req.product),
                                     SearchSizeOf(server.req.product)) } :
            RespondResults(arr, server.req.product, r)

\* every adapter has settled and product is an array: detectBrands throws
\* (an array has no toLowerCase), the catch block answers 500, through the
\* json method of the cache middleware
Fail ==
    /\ pc = "awaiting"
    /\ \A n \in DOMAIN Platforms : server.adapters[n] # "pending"
    /\ server.req.product = ProductArray
    /\ server' = [server EXCEPT
                     !.status = 500,
                     !.body = PlainBody("failed"),
                     !.cache = CacheSet(@, OriginalUrl(server.req),
                                        PlainBody("failed"))]
    /\ pc' = "answered"
    /\ UNCHANGED << items, results, dedupInput, potentialBrands, searchSize,
                    exactMatches, alternatives, scraped, request, call >>

\* 30 seconds have passed and an adapter has not settled: the callback of
\* setTimeout throws outside the handler's try block, and the uncaught
\* exception ends the process
Timeout ==
    /\ pc = "awaiting"
    /\ \E n \in DOMAIN Platforms : server.adapters[n] = "pending"
    /\ server' = [server EXCEPT !.alive = FALSE]
    /\ pc' = "crashed"
    /\ UNCHANGED << items, results, dedupInput, potentialBrands, searchSize,
                    exactMatches, alternatives, scraped, request, call >>

\* the time to live of a cache entry has passed
Expire ==
    /\ pc \in { "idle", "answered" }
    /\ server.alive
    /\ \E e \in server.cache :
        server' = [server EXCEPT !.cache = @ \ { e }]
    /\ UNCHANGED << items, results, dedupInput, potentialBrands, searchSize,
                    exactMatches, alternatives, pc, scraped, request, call >>

ServiceNext ==
    \/ \E req \in Requests :
        \/ Refuse(req)
        \/ ClearCache(req)
        \/ Replay(req)
        \/ Missing(req)
        \/ Scrape(req)
    \/ \E n \in DOMAIN Platforms : Fulfil(n) \/ Reject(n)
    \/ Complete
    \/ Fail
    \/ Timeout
    \/ Expire

ServiceSpec == ServiceInit /\ [][ServiceNext]_vars

\* the event loop runs a timer callback that is due and a continuation
\* whose promise has settled; nothing makes an adapter settle or a request
\* arrive
ServiceLive ==
    /\ ServiceSpec
    /\ WF_vars(Timeout)
    /\ WF_vars(Complete)
    /\ WF_vars(Fail)

\* ------------------------------------------------------------------------
\* Single calls of extractNumericPrice, formatPrice, compareSizes and
\* detectBrands
\* ------------------------------------------------------------------------

\* how often formatPrice is applied to its own result
MaxApplications == 2

\* the calls: price strings as the pages write them; strings, numbers and
\* null for formatPrice; titles and searchSize texts for compareSizes; the
\* product parameters and further ones for detectBrands; titles for
\* extractWeight; titles and candidate lists for checkBrandMatch
Calls ==
    { [NoCall EXCEPT !.fn = "extractNumericPrice", !.text = s] :
          s \in { Null } \cup
          { <<"U+20B9","5","0">>,
            <<"U+20B9","1",",","2","9","9",".","5","0">>,
            <<"U+20B9","4","9","9"," ","(","w","a","s"," ","U+20B9","5","9","9",")">>,
            <<"N","/","A">>,
            <<>>,
            <<",">>,
            <<"U+20B9">>,
            <<"R","s"," ",",">>,
            <<" ">>,
            <<"F","r","e","e">>,
            <<"4","9","9",".">>,
            <<"S","a","v","e",","," ","U+20B9","4","9","9"," ","(","w","a","s"," ","U+20B9","5","9","9",")">>,
            <<"U+20B9","0">>,
            <<"1","2",",",",","3","4">>,
            <<"1",".","2","9","9",",","5","0">>,
            <<"R","s","."," ","7","5"," ","-"," ","R","s","."," ","9","0">> } }
      \cup { [NoCall EXCEPT !.fn = "formatPrice", !.value = v] :
          v \in
          { JsValue("string", s, NullNum) : s \in
              { <<"U+20B9","5","0",".","0","0">>,
                <<"U+20B9","0",".","0","0">>,
                <<"U+20B9">>,
                <<"U+20B9","1",",","2","9","9",".","5","0">>,
                <<"5","0">>,
                <<"4","9",".","5">>,
                <<"a","b","c">>,
                <<>> } }
            \cup { JsValue("number", Null, x) : x \in
                     { Zero, Fin(50, 1), Fin(99, 2), Fin(1, 200), Fin(2599, 2), NaN, Infinity, MAX_VALUE } }
            \cup { JsValue("null", Null, NullNum) } }
      \cup { [NoCall EXCEPT !.fn = "compareSizes", !.text = s[1], !.size = s[2]] :
          s \in
          { <<"D","o","v","e"," ","S","h","a","m","p","o","o"," ","2","l">>,
            <<"D","o","v","e"," ","O","i","l"," ","2","-","l","i","t","e","r">>,
            <<"D","o","v","e"," ","R","i","c","e"," ","2","k","g">>,
            <<"D","o","v","e"," ","M","i","l","k"," ","2"," ","L","i","t","r","e">>,
            <<"D","o","v","e"," ","A","t","t","a"," ","2",".","0","5"," ","k","g">>,
            <<"D","o","v","e"," ","G","e","l"," ","2","0","0","m","l">>,
            <<"D","o","v","e"," ","S","a","l","t"," ","2"," ","g","r","a","m">>,
            <<"D","o","v","e"," ","B","a","r">>,
            <<"D","o","v","e"," ","R","i","c","e"," ","2",".","1","K","G">>,
            <<"D","o","v","e"," ","O","i","l"," ","1",".","5"," ","L">>,
            <<"D","o","v","e"," ","R","i","c","e"," ",".","k","g">> }
          \X
          ({ <<"2","k","g">>,
            <<"2"," ","k","g">>,
            <<"2","l">>,
            <<"2"," ","l">>,
            <<"2"," ","l","i","t","r","e">>,
            <<"2","0","0","m","l">>,
            <<"1",".","5","l">>,
            <<"2"," ","g","m">>,
            <<"2",".","0","5"," ","k","g">>,
            <<"k","g">>,
            <<>> }
            \cup { Null }) }
      \cup { [NoCall EXCEPT !.fn = "detectBrands", !.text = s] :
          s \in Queries \cup
          { <<"m","y"," ","d","o","v","e"," ","r","i","n">>,
            <<"d","o","v","e"," ","5","0","0","m","l">>,
            <<"s","o","a","p"," ","d","o","v","e"," ","d","o","v","e">>,
            <<"D","o","v","e"," ","S","o","a","p">>,
            <<"b","e","s","t"," ","s","o","a","p">>,
            <<"L","i","f","e","b","u","o","y"," ","D","o","v","e"," ","d","o","v","e">>,
            <<>>,
            <<"x","y">>,
            <<" ","d","o","v","e">>,
            <<"D","O","V","E"," ","s","o","a","p">>,
            <<"s","o","a","p"," ","L","u","x">>,
            <<"t","h","e"," ","D","o","v","e"," ","2","L">>,
            <<"S","o","a","p"," ","f","o","r"," ","B","a","b","y">>,
            <<"a","1"," ","D","o","v","e"," ","D","o","v","e">>,
            <<"L","u","x"," ","D","e","t","t","o","l"," ","s","o","a","p">>,
            <<"n","e","w"," ","f","r","e","s","h"," ","s","o","a","p">>,
            <<"d","e","t","t","o","l">>,
            <<"R","i","n"," "," ","b","a","r">> } }
      \cup { [NoCall EXCEPT !.fn = "extractWeight", !.text = s] :
          s \in
          { <<"D","o","v","e"," ","S","o","a","p"," ","1","0","0","g">>,
            <<"D","o","v","e"," ","O","i","l"," ","2","-","l","i","t","e","r">>,
            <<"D","o","v","e"," ","2","-","k","g"," ","5","0","0","g">>,
            <<"D","o","v","e"," ","5","0","0"," ","-"," ","m","l"," ","1"," ","L">>,
            <<"D","o","v","e"," ","1"," ","L"," ","2","-","k","g">>,
            <<"D","o","v","e"," ","B","a","r">>,
            <<"D","o","v","e"," ","2","5","0"," ","g","m">>,
            <<"2","-","-","k","g"," ","D","o","v","e">>,
            <<>> } }
      \cup { [NoCall EXCEPT !.fn = "checkBrandMatch", !.text = s[1], !.brands = s[2]] :
          s \in
          { <<"D","o","v","e"," ","S","o","a","p">>,
            <<"N","e","w"," ","D","o","v","e"," ","S","o","a","p">>,
            <<"P","r","e","m","i","u","m"," ","B","a","t","h","i","n","g"," ",
              "S","o","a","p"," ","B","a","r"," ","D","o","v","e">>,
            <<"P","r","e","m","i","u","m"," ","B","a","t","h","i","n","g"," ",
              "S","o","a","p"," ","B","a","r"," ","L","u","x">>,
            <<"S","u","p","e","r","d","o","v","e","s"," ","B","a","r">>,
            <<"D","e","t","e","r","g","e","n","t"," ","b","u","o","y">>,
            <<"L","u","x"," ","a"," ","S","o","a","p">>,
            <<" ","L","u","x">>,
            <<"x","a","b"," ","c","d","x">>,
            <<>> }
          \X
          { << <<"d","o","v","e">> >>,
            << <<"l","i","f","e","b","u","o","y">>, <<"d","o","v","e">> >>,
            << <<"p","e","a","r","s">> >>,
            << <<"a","b"," ","c","d">> >>,
            << >> } }

CallInit ==
    \E c \in Calls :
        /\ call = c
        /\ items = << >>
        /\ results = << >>
        /\ scraped = << >>
        /\ Idle
        /\ pc = "call"

\* extractNumericPrice(text)
ExtractNumericPrice ==
    /\ call.fn = "extractNumericPrice"
    /\ call.steps = 0
    /\ call' = [call EXCEPT !.steps = 1, !.number = extractNumericPrice(call.text)]
    /\ UNCHANGED << items, results, dedupInput, potentialBrands, searchSize,
                    exactMatches, alternatives, pc, scraped, request, server >>

\* formatPrice(value), and then formatPrice of what it returned
FormatPrice ==
    /\ call.fn = "formatPrice"
    /\ call.steps < MaxApplications
    /\ call' = [call EXCEPT
                   !.steps = @ + 1,
                   !.previous = call.formatted,
                   !.formatted = formatPrice(IF call.steps = 0 THEN call.value
                                             ELSE JsValue("string", call.formatted, NullNum))]
    /\ UNCHANGED << items, results, dedupInput, potentialBrands, searchSize,
                    exactMatches, alternatives, pc, scraped, request, server >>

\* compareSizes(extractWeight(text), size)
CompareSizes ==
    /\ call.fn = "compareSizes"
    /\ call.steps = 0
    /\ call' = [call EXCEPT
                   !.steps = 1,
                   !.match = compareSizes(extractWeight(call.text), call.size)]
    /\ UNCHANGED << items, results, dedupInput, potentialBrands, searchSize,
                    exactMatches, alternatives, pc, scraped, request, server >>

\* extractWeight(text)
ExtractWeight ==
    /\ call.fn = "extractWeight"
    /\ call.steps = 0
    /\ call' = [call EXCEPT !.steps = 1, !.weight = extractWeight(call.text)]
    /\ UNCHANGED << items, results, dedupInput, potentialBrands, searchSize,
                    exactMatches, alternatives, pc, scraped, request, server >>

\* checkBrandMatch(text, brands)
CheckBrandMatch ==
    /\ call.fn = "checkBrandMatch"
    /\ call.steps = 0
    /\ call' = [call EXCEPT !.steps = 1, !.match = checkBrandMatch(call.text, call.brands)]
    /\ UNCHANGED << items, results, dedupInput, potentialBrands, searchSize,
                    exactMatches, alternatives, pc, scraped, request, server >>

\* detectBrands(text): potentialBrands after the first word, after the
\* capitalized words, and as returned
DetectBrands ==
    /\ call.fn = "detectBrands"
    /\ call.steps = 0
    /\ call' = [call EXCEPT
                   !.steps = 1,
                   !.leading = LeadingBrands(LongWords(call.text)),
                   !.scanned = ScannedBrands(call.text),
                   !.brands = detectBrands(call.text)]
    /\ UNCHANGED << items, results, dedupInput, potentialBrands, searchSize,
                    exactMatches, alternatives, pc, scraped, request, server >>

CallNext ==
    \/ ExtractNumericPrice
    \/ FormatPrice
    \/ CompareSizes
    \/ DetectBrands
    \/ ExtractWeight
    \/ CheckBrandMatch

CallSpec == CallInit /\ [][CallNext]_vars

\* ------------------------------------------------------------------------
\* Properties
\* ------------------------------------------------------------------------

RangeOf(arr) == { arr[i] : i \in DOMAIN arr }

PositionIn(arr, o) == CHOOSE i \in DOMAIN arr : arr[i] = o

NonEmpty(s) == s # Null /\ s # << >>

\* the potentialBrands lists and the searchSize values of the calls
BrandLists == { c[1] : c \in Contexts }

SearchSizes == { c[2] : c \in Contexts }

\* What the functions of brandUtils, attributeUtils and priceUtils give on
\* the title and the price string of each raw record, as written (not
\* lowercased): the properties below compare what categorizeResults did
\* with a record against these.
WeightOfRecord ==
    [r \in DOMAIN RawRecords |-> extractWeight(RawRecords[r].title)] @@ << >>

PackOfRecord ==
    [r \in DOMAIN RawRecords |-> extractPackSize(RawRecords[r].title)] @@ << >>

PriceOfRecord ==
    [r \in DOMAIN RawRecords |-> extractNumericPrice(RawRecords[r].price)] @@ << >>

BrandMatchOfRecord ==
    [k \in (DOMAIN RawRecords) \X BrandLists |->
        checkBrandMatch(RawRecords[k[1]].title, k[2])] @@ << >>

SizeMatchOfRecord ==
    [k \in (DOMAIN RawRecords) \X SearchSizes |->
        compareSizes(WeightOfRecord[k[1]], k[2])] @@ << >>

\* the unit as the title writes it: the longest unit word that follows the
\* number and the separator of the weight found in the title
WrittenUnit(title) ==
    LET lower == ToLowerCase(title)
        m == extractWeight(title)
        upToUnit == SubSeq(ToLowerCase(m.m0), 1, Len(m.m0) - Len(m.m2))
        written == { u \in DOMAIN weightPatterns[1].units : Includes(lower, upToUnit \o weightPatterns[1].units[u]) }
    IN  weightPatterns[1].units[CHOOSE u \in written :
                      \A v \in written : Len(weightPatterns[1].units[v]) <= Len(weightPatterns[1].units[u])]

WrittenUnitOfRecord ==
    [r \in { q \in DOMAIN RawRecords : WeightOfRecord[q].found } |->
        WrittenUnit(RawRecords[r].title)] @@ << >>

\* the raw record of object o
Rec(o) == RawOf(items[o])

\* the rank of position i of a bucket in the price ordering of the bucket:
\* one more than the count of the objects that sort before it, an object of
\* equal price and earlier position among them
RankIn(bucket, i) ==
    1 + Cardinality({ j \in DOMAIN bucket :
            \/ ComparePrice(items[bucket[j]], items[bucket[i]]) < 0
            \/ /\ ComparePrice(items[bucket[j]], items[bucket[i]]) = 0
               /\ j < i })

Buckets == { exactMatches, alternatives }

\* C1: after categorizeResults, in each bucket of n >= 2 records the record
\* ranked first by effective price has priceCategory 'cheapest', the record
\* ranked last has 'expensive', and every other record has 'medium'.
C1_PriceCategoryByRank ==
    pc = "categorized" =>
        \A bucket \in Buckets :
            Len(bucket) >= 2 =>
                \A i \in DOMAIN bucket :
                    items[bucket[i]].priceCategory =
                        IF RankIn(bucket, i) = 1 THEN "cheapest"
                        ELSE IF RankIn(bucket, i) = Len(bucket) THEN "expensive"
                        ELSE "medium"

\* whether categorizeResults is to place raw record r in exactMatches: its
\* brand matches and, in case the search has a size and a weight is found
\* in the title, the sizes compare equal
ExactByBrandAndSize(r, brands, size) ==
    /\ BrandMatchOfRecord[<< r, brands >>]
    /\ (NonEmpty(size) /\ WeightOfRecord[r].found) => SizeMatchOfRecord[<< r, size >>]

\* C2: a record is in exactMatches if and only if checkBrandMatch succeeds
\* on its title and, in the case where searchSize is non-empty and
\* extractWeight found a weight in the title, compareSizes succeeds too;
\* every other record is in alternatives.
C2_ExactIffBrandAndSize ==
    pc = "categorized" =>
        \A o \in RangeOf(results) :
            /\ o \in RangeOf(exactMatches)
                 <=> ExactByBrandAndSize(Rec(o), potentialBrands, searchSize)
            /\ o \in RangeOf(alternatives)
                 <=> ~ExactByBrandAndSize(Rec(o), potentialBrands, searchSize)

\* a search with a size has put a record of the size in exactMatches, a
\* record of the brand and of another size in alternatives, and a record of
\* another brand in alternatives
C2_Witness ==
    /\ pc = "categorized"
    /\ NonEmpty(searchSize)
    /\ \E o \in RangeOf(exactMatches) : WeightOfRecord[Rec(o)].found
    /\ \E o \in RangeOf(alternatives) :
        /\ BrandMatchOfRecord[<< Rec(o), potentialBrands >>]
        /\ WeightOfRecord[Rec(o)].found
    /\ \E o \in RangeOf(alternatives) :
        ~BrandMatchOfRecord[<< Rec(o), potentialBrands >>]

C4_Partition ==
    pc = "categorized" =>
        /\ RangeOf(exactMatches) \cup RangeOf(alternatives) = RangeOf(results)
        /\ RangeOf(exactMatches) \cap RangeOf(alternatives) = { }
        /\ Len(exactMatches) + Len(alternatives) = Len(results)
        /\ \A bucket \in Buckets :
            \A a, b \in DOMAIN bucket :
                a < b => PositionIn(results, bucket[a]) < PositionIn(results, bucket[b])
        /\ \A o \in RangeOf(results) :
            /\ items[o].title = RawRecords[Rec(o)].title
            /\ items[o].price = RawRecords[Rec(o)].price

\* three records went in, the first and the third are the exact matches
\* and the second is the alternative
C4_Witness ==
    /\ pc = "categorized"
    /\ Len(results) = 3
    /\ exactMatches = << results[1], results[3] >>
    /\ alternatives = << results[2] >>

\* C5: a record whose price string is unparseable (extractNumericPrice
\* gives the sentinel) has unitPrice 0 and is ranked last in the price
\* ordering of its bucket (behind every record with a parseable price),
\* whether or not a weight was found in its title.
C5_UnparseablePriceLast ==
    pc = "categorized" =>
        \A bucket \in Buckets :
            \A i \in DOMAIN bucket :
                PriceOfRecord[Rec(bucket[i])] = MAX_VALUE =>
                    /\ items[bucket[i]].unitPrice = Zero
                    /\ items[bucket[i]].attributes.unitPrice = Zero
                    /\ \A j \in DOMAIN bucket :
                        PriceOfRecord[Rec(bucket[j])] # MAX_VALUE
                            => RankIn(bucket, j) < RankIn(bucket, i)

\* C6: for every record categorizeResults processed, attributes.unitPrice
\* > 0 if and only if attributes.totalWeight > 0 and the price string gave
\* a numeric price (not the sentinel).
C6_UnitPricePositiveIff ==
    pc = "categorized" =>
        \A o \in RangeOf(results) :
            NumPositive(items[o].attributes.unitPrice)
                <=> /\ NumPositive(items[o].attributes.totalWeight)
                    /\ PriceOfRecord[Rec(o)] # MAX_VALUE

\* C7: totalWeight is individualWeight x packSize when a pack is found in
\* the title and individualWeight otherwise, and unitPrice is
\* (price / totalWeight) x 100 when totalWeight > 0 and 0 otherwise.
C7_TotalWeightAndUnitPrice ==
    pc = "categorized" =>
        \A o \in RangeOf(results) :
            LET a == items[o].attributes
                price == PriceOfRecord[Rec(o)]
            IN  /\ a.totalWeight =
                        IF PackOfRecord[Rec(o)].found
                        THEN NumMul(a.individualWeight, a.packSize)
                        ELSE a.individualWeight
                /\ a.unitPrice =
                        IF NumPositive(a.totalWeight)
                        THEN NumMul(NumDiv(price, a.totalWeight), Fin(100, 1))
                        ELSE Zero
                /\ items[o].unitPrice = a.unitPrice

\* a record of weight 100 g in a pack of 4 has totalWeight 400, and a
\* record of weight 100 g and price 50 has unitPrice 50
C7_Witness ==
    /\ pc = "categorized"
    /\ \E o \in RangeOf(results) :
        /\ items[o].attributes.individualWeight = Fin(100, 1)
        /\ items[o].attributes.packSize = Fin(4, 1)
        /\ items[o].attributes.totalWeight = Fin(400, 1)
    /\ \E o \in RangeOf(results) :
        /\ items[o].attributes.totalWeight = Fin(100, 1)
        /\ PriceOfRecord[Rec(o)] = Fin(50, 1)
        /\ items[o].attributes.unitPrice = Fin(50, 1)

\* C8: whenever a weight is found in the title, weightUnit is 'g' or 'ml',
\* and individualWeight is the captured number x 1000 where the title
\* writes kg, l, liter or litre (g for kg, ml for the others) and the
\* captured number itself where it writes g, gm, gram (g) or ml (ml).
C8_CanonicalUnit ==
    pc = "categorized" =>
        \A o \in RangeOf(results) :
            WeightOfRecord[Rec(o)].found =>
                LET a == items[o].attributes
                    number == ParseFloat(WeightOfRecord[Rec(o)].m1)
                    unit == WrittenUnitOfRecord[Rec(o)]
                IN  /\ a.weightUnit \in { Unit.g, Unit.ml }
                    /\ unit \in { Unit.kg, Unit.l, Unit.liter, Unit.litre }
                        => a.individualWeight = NumMul(number, Fin(1000, 1))
                    /\ unit \in { Unit.g, Unit.gm, Unit.gram, Unit.ml }
                        => a.individualWeight = number
                    /\ a.weightUnit =
                        IF unit \in { Unit.kg, Unit.g, Unit.gm, Unit.gram } THEN Unit.g ELSE Unit.ml

\* '2kg' has given 2000 g and '1.5L' has given 1500 ml
C8_Witness ==
    /\ pc = "categorized"
    /\ \E o \in RangeOf(results) :
        /\ WeightOfRecord[Rec(o)].m0 = <<"2","k","g">>
        /\ items[o].attributes.individualWeight = Fin(2000, 1)
        /\ items[o].attributes.weightUnit = Unit.g
    /\ \E o \in RangeOf(results) :
        /\ WeightOfRecord[Rec(o)].m0 = <<"1",".","5","L">>
        /\ items[o].attributes.individualWeight = Fin(1500, 1)
        /\ items[o].attributes.weightUnit = Unit.ml

\* C9: the record titled 'Soap 100g' with price rupee sign (U+20B9), 5, 0 has
\* unitPrice 50 and unitPriceFormatted exactly that sign and '50.00/100g'; in general
\* the display string is the rupee sign, the unit price with two decimals,
\* and '/100ml' when the unit is ml and '/100g' otherwise.
C9_UnitPriceFormatted ==
    pc = "categorized" =>
        \A o \in RangeOf(results) :
            /\ (/\ items[o].title = <<"S","o","a","p"," ","1","0","0","g">>
                /\ items[o].price = RupeeSign \o <<"5","0">>)
                    => /\ items[o].unitPrice = Fin(50, 1)
                       /\ items[o].unitPriceFormatted =
                            RupeeSign \o <<"5","0",".","0","0","/","1","0","0","g">>
            /\ NumPositive(items[o].attributes.totalWeight)
                    => items[o].unitPriceFormatted =
                            RupeeSign \o ToFixed2(items[o].unitPrice) \o <<"/">>
                                \o (IF items[o].attributes.weightUnit = Unit.ml
                                    THEN <<"1","0","0","m","l">> ELSE <<"1","0","0","g">>)

\* the positions of an array of objects that hold the first occurrence of
\* their pair (lowercased title, price string)
FirstOccurrences(arr) ==
    { i \in DOMAIN arr :
        \A k \in 1..(i - 1) :
            ~(/\ ToLowerCase(items[arr[k]].title) = ToLowerCase(items[arr[i]].title)
              /\ items[arr[k]].price = items[arr[i]].price) }

\* C10: removeDuplicates returns the subsequence of its input made of the
\* records that are the first occurrence of their pair (lowercased title,
\* price string), in input order: two records are collapsed if and only if
\* their lowercased titles are equal and their price strings are equal.
C10_FirstOccurrencesKept ==
    pc = "deduped" =>
        results = PickFrom(dedupInput, FirstOccurrences(dedupInput), 1)

HasDigit(s) == \E i \in DOMAIN s : IsDigit(s[i])

\* C12: extractNumericPrice returns the sentinel Number.MAX_VALUE for every
\* input that is empty, null, or holds no digit, strings of currency
\* symbols, letters, spaces and separators such as ',' included.
C12_NoDigitGivesSentinel ==
    (call.fn = "extractNumericPrice" /\ call.steps = 1) =>
        ((call.text = Null \/ ~HasDigit(call.text)) => call.number = MAX_VALUE)

\* the positions of s where a run of digits, separators and points begins
\* with a digit or goes on to its first digit
NumericRunStarts(s) ==
    { i \in DOMAIN s :
        /\ IsDigit(s[i])
        /\ \A k \in 1..(i - 1) :
            (\A m \in k..(i - 1) : InClass(s[m], "DigComma") \/ s[m] = ".")
                => ~IsDigit(s[k]) }

\* the run of digits and thousands separators of s from its first digit
\* on, with one decimal point and the digits behind it
FirstNumericRun(s) ==
    LET i == CHOOSE x \in DOMAIN s : IsDigit(s[x]) /\ \A k \in 1..(x - 1) : ~IsDigit(s[k])
        j == RunEnd(s, i, "DigComma")
        e == IF j <= Len(s) /\ s[j] = "." THEN RunEnd(s, j + 1, "Digit") ELSE j
    IN  SubSeq(s, i, e - 1)

\* C13: for a price string with several numeric runs, extractNumericPrice
\* returns the value of the first (leftmost) run with the thousands
\* separators stripped; the strings rupee sign 499 (was rupee sign 599) and
\* rupee sign 1,299.50 give 499 and 1299.5.
C13_FirstRunParsed ==
    (call.fn = "extractNumericPrice" /\ call.steps = 1 /\ call.text # Null) =>
        /\ Cardinality(NumericRunStarts(call.text)) >= 2
             => call.number = ParseFloat(StripCommas(FirstNumericRun(call.text)))
        /\ call.text = <<"U+20B9","4","9","9"," ","(","w","a","s"," ","U+20B9","5","9","9",")">>
             => call.number = Fin(499, 1)
        /\ call.text = <<"U+20B9","1",",","2","9","9",".","5","0">>
             => call.number = Fin(2599, 2)

\* C14: formatPrice is idempotent: formatPrice(formatPrice(x)) equals
\* formatPrice(x) for every number x and every string x that holds the
\* rupee sign, and for 0, null and the empty string.
C14_FormatPriceIdempotent ==
    (/\ call.fn = "formatPrice"
     /\ call.steps >= 2
     /\ \/ call.value.kind \in { "number", "null" }
        \/ call.value.str = << >>
        \/ Includes(call.value.str, RupeeSign))
        => call.formatted = call.previous

\* formatPrice was applied to the number 50 and then to its result
C14_Witness ==
    /\ call.fn = "formatPrice"
    /\ call.steps = 2
    /\ call.value = JsValue("number", Null, Fin(50, 1))
    /\ call.formatted = RupeeSign \o <<"5","0",".","0","0">>

IsLetter(c) ==
    \/ \E i \in DOMAIN LowerChars : LowerChars[i] = c
    \/ \E i \in DOMAIN UpperChars : UpperChars[i] = c

\* the unit a size text is written with: the letters it ends with
SizeUnitOf(s) ==
    SubSeq(s, CHOOSE k \in 1..(Len(s) + 1) :
                  /\ \A m \in k..Len(s) : IsLetter(s[m])
                  /\ (k = 1 \/ ~IsLetter(s[k - 1])),
              Len(s))

\* the number a size text is written with: the number at its first digit
\* or point
SizeNumberOf(s) ==
    IF \A i \in DOMAIN s : ~InClass(s[i], "DigDot") THEN NaN
    ELSE ParseFloat(SubSeq(s, CHOOSE x \in DOMAIN s :
                                  /\ InClass(s[x], "DigDot")
                                  /\ \A k \in 1..(x - 1) : ~InClass(s[k], "DigDot"),
                           Len(s)))

VolumeUnitWords == { Unit.l, Unit.liter, Unit.litre, Unit.ml }

WeightUnitWords == { Unit.kg, Unit.g, Unit.gm, Unit.gram }

\* both units are units of volume, or both are units of weight
SameDimension(productUnit, searchUnit) ==
    \/ productUnit \in VolumeUnitWords /\ searchUnit \in VolumeUnitWords
    \/ productUnit \in WeightUnitWords /\ searchUnit \in WeightUnitWords

\* the product size text and the search size are of the same size
SameSize(productSize, size) ==
    /\ AbsDiffLess(SizeNumberOf(productSize), SizeNumberOf(size), 1, 10)
    /\ SameDimension(SizeUnitOf(productSize), SizeUnitOf(size))

\* C15: compareSizes(weightMatch, searchSize) is true if and only if the
\* number of the product's size text and the number of searchSize differ by
\* less than 0.1 and the two units are of the same dimension (both among l,
\* liter, litre, ml, or both units of weight); a volume never matches a
\* weight.
C15_SizesMatchByNumberAndDimension ==
    (call.fn = "compareSizes" /\ call.steps = 1) =>
        (call.match <=>
            /\ extractWeight(call.text).found
            /\ NonEmpty(call.size)
            /\ SameSize(ToLowerCase(extractWeight(call.text).m0), call.size))

\* the size '2l' of a product was compared with the search size '2kg', and
\* with no match
C15_Witness ==
    /\ call.fn = "compareSizes"
    /\ call.steps = 1
    /\ call.text = <<"D","o","v","e"," ","S","h","a","m","p","o","o"," ","2","l">>
    /\ call.size = <<"2","k","g">>
    /\ ~call.match

\* a search size that holds no number
Malformed(size) ==
    NonEmpty(size) /\ \A i \in DOMAIN size : ~InClass(size[i], "DigDot")

\* C16: when searchSize is malformed (it holds no digit), compareSizes
\* returns false without throwing, and categorizeResults returns a result in
\* which every record is classified: a record of the brand whose title holds
\* a weight is an alternative (its comparison failed), and every other
\* record is classified by its brand match, as without a comparison.
C16_MalformedSizeNeverMatches ==
    (pc = "categorized" /\ Malformed(searchSize)) =>
        /\ RangeOf(exactMatches) \cup RangeOf(alternatives) = RangeOf(results)
        /\ \A o \in RangeOf(results) :
            o \in RangeOf(exactMatches)
                <=> /\ BrandMatchOfRecord[<< Rec(o), potentialBrands >>]
                    /\ ~WeightOfRecord[Rec(o)].found

\* a call with a malformed searchSize has classified a record of the brand
\* without a weight as exact match, a record of the brand with a weight as
\* alternative, and a record of another brand as alternative
C16_Witness ==
    /\ pc = "categorized"
    /\ Malformed(searchSize)
    /\ \E o \in RangeOf(exactMatches) : ~WeightOfRecord[Rec(o)].found
    /\ \E o \in RangeOf(alternatives) :
        /\ BrandMatchOfRecord[<< Rec(o), potentialBrands >>]
        /\ WeightOfRecord[Rec(o)].found
    /\ \E o \in RangeOf(alternatives) :
        ~BrandMatchOfRecord[<< Rec(o), potentialBrands >>]

\* the whitespace-delimited tokens of a query
Tokens(text) == SelectSeq(SplitSpaces(text), LAMBDA w : w # << >>)

\* the first token of the query is longer than 2 characters and not generic
LeadingQualifies(text) ==
    /\ Len(Tokens(text)) > 0
    /\ Len(Tokens(text)[1]) > 2
    /\ ~IsGeneric(ToLowerCase(Tokens(text)[1]))

\* C17: detectBrands includes the lowercased first whitespace-delimited
\* token of the query as the first candidate exactly when that token is
\* longer than 2 characters and not in the generic-word list; the
\* leading-token rule never adds a later token.
C17_LeadingTokenRule ==
    (call.fn = "detectBrands" /\ call.steps = 1) =>
        IF LeadingQualifies(call.text)
        THEN /\ call.leading = << ToLowerCase(Tokens(call.text)[1]) >>
             /\ call.brands[1] = ToLowerCase(Tokens(call.text)[1])
        ELSE call.leading = << >>

IsUpperLetter(c) == \E i \in DOMAIN UpperChars : UpperChars[i] = c

IsLowerLetter(c) == \E i \in DOMAIN LowerChars : LowerChars[i] = c

\* a token in Title Case that is no generic word
IsTitleCase(w) ==
    /\ Len(w) > 1
    /\ IsUpperLetter(w[1])
    /\ IsLowerLetter(w[2])
    /\ ~IsGeneric(ToLowerCase(w))

\* C18: the capitalized-word scan of detectBrands appends only Title-Case
\* tokens: each token it appends is the lowercased form of a token of the
\* query that has an uppercase letter first and a lowercase letter second,
\* is longer than 1 and not generic; a token that starts with a digit, such
\* as '500ml', is never appended by the scan.
C18_ScanAddsTitleCaseOnly ==
    (call.fn = "detectBrands" /\ call.steps = 1) =>
        \A a \in (Len(call.leading) + 1)..Len(call.scanned) :
            \E w \in DOMAIN Tokens(call.text) :
                /\ ToLowerCase(Tokens(call.text)[w]) = call.scanned[a]
                /\ IsTitleCase(Tokens(call.text)[w])

\* C19: the list detectBrands returns is an ordered set: it holds no token
\* twice and no generic word, also when the fallback to every non-generic
\* token of the query produced it.
C19_BrandsAreOrderedSet ==
    (call.fn = "detectBrands" /\ call.steps = 1) =>
        /\ \A a, b \in DOMAIN call.brands :
            a # b => call.brands[a] # call.brands[b]
        /\ \A a \in DOMAIN call.brands : ~IsGeneric(call.brands[a])

\* word equals a candidate, contains one or is contained in one
WordFitsCandidate(word, candidates) ==
    \E c \in DOMAIN candidates :
        \/ word = candidates[c]
        \/ \E i \in 1..(Len(word) + 1) : OccursAt(word, i, candidates[c])
        \/ \E i \in 1..(Len(candidates[c]) + 1) : OccursAt(candidates[c], i, word)

\* one of the three strategies succeeds on the lowercased title: its first
\* word fits a candidate, a candidate starts within its first 20
\* characters, or one of its words fits a candidate
SomeStrategySucceeds(title, candidates) ==
    \/ WordFitsCandidate(Tokens(title)[1], candidates)
    \/ \E c \in DOMAIN candidates :
        \E i \in 1..20 : OccursAt(title, i, candidates[c])
    \/ \E w \in DOMAIN Tokens(title) : WordFitsCandidate(Tokens(title)[w], candidates)

\* what checkBrandMatch is to return for raw record r and each list of
\* candidates
BrandMatchExpected ==
    [k \in (DOMAIN RawRecords) \X BrandLists |->
        /\ RawRecords[k[1]].title # << >>
        /\ Len(k[2]) > 0
        /\ SomeStrategySucceeds(ToLowerCase(RawRecords[k[1]].title), k[2])] @@ << >>

\* C20: checkBrandMatch(title, candidates) is true if and only if one of
\* its three strategies succeeds, and false for an empty title and for an
\* empty candidate list: a record is an exact match only if one succeeds, a
\* record whose classification the brand match decides is an exact match
\* exactly if one succeeds, and a call without candidates returns an empty
\* exactMatches.
C20_BrandMatchByStrategies ==
    pc = "categorized" =>
        /\ Len(potentialBrands) = 0 => exactMatches = << >>
        /\ \A o \in RangeOf(results) :
            /\ o \in RangeOf(exactMatches)
                 => BrandMatchExpected[<< Rec(o), potentialBrands >>]
            /\ (~NonEmpty(searchSize) \/ ~WeightOfRecord[Rec(o)].found)
                 => (o \in RangeOf(exactMatches)
                       <=> BrandMatchExpected[<< Rec(o), potentialBrands >>])

\* a call without brand candidates has classified every record of an
\* array of several records of the brand Dove as alternative
C20_Witness ==
    /\ pc = "categorized"
    /\ Len(potentialBrands) = 0
    /\ Len(results) >= 2
    /\ exactMatches = << >>
    /\ \A o \in RangeOf(results) :
        Includes(ToLowerCase(items[o].title), <<"d","o","v","e">>)

\* the fields categorizeResults derives
DerivedFieldNames ==
    { "weightInfo", "packInfo", "features", "unitPrice", "unitPriceFormatted",
      "attributes", "priceCategory" }

\* C21: categorizeResults is a pure transform: after it returns, every
\* record object of the input array has the fields and values it had before
\* the call (no derived attribute, no priceCategory).
C21_InputRecordsUnchanged ==
    pc = "categorized" =>
        \A i \in DOMAIN results : \A f \in DerivedFieldNames :
            items[results[i]][f] = NewItem(RawOf(items[results[i]]), UndefinedKey)[f]

\* C22: for every record processed by categorizeResults, attributes.packSize
\* is null or an integer >= 1, and a detected pack never makes totalWeight
\* less than individualWeight.
C22_PackSizeAtLeastOne ==
    pc = "categorized" =>
        \A i \in DOMAIN results :
            LET a == items[results[i]].attributes
            IN  \/ a.packSize = NullNum
                \/ /\ a.packSize.k = "fin" /\ a.packSize.d = 1 /\ a.packSize.n >= 1
                   /\ CompareNum(a.totalWeight, a.individualWeight) >= 0

\* the arguments of the example: the records 'Dove Soap 100g' and
\* 'Lifebuoy Soap 100g' in either order, the candidates of the query 'Dove',
\* no search size
DoveAndLifebuoy ==
    /\ pc = "categorized"
    /\ Len(results) = 2
    /\ { Rec(results[1]), Rec(results[2]) } = { 1, 2 }
    /\ potentialBrands = detectBrands(<<"D","o","v","e">>)
    /\ searchSize = Null

\* C23: a bucket that holds exactly one record gives it priceCategory
\* 'cheapest'; for 'Dove Soap 100g' and 'Lifebuoy Soap 100g' with the
\* candidates of 'Dove' and no search size, exactMatches is the Dove record
\* and alternatives is the Lifebuoy record, both 'cheapest'.
C23_SingleRecordCheapest ==
    /\ pc = "categorized" =>
        \A bucket \in Buckets :
            Len(bucket) = 1 => items[bucket[1]].priceCategory = "cheapest"
    /\ DoveAndLifebuoy =>
        /\ Len(exactMatches) = 1 /\ Rec(exactMatches[1]) = 1
        /\ Len(alternatives) = 1 /\ Rec(alternatives[1]) = 2
        /\ items[exactMatches[1]].priceCategory = "cheapest"
        /\ items[alternatives[1]].priceCategory = "cheapest"

\* the example has been categorized, the Lifebuoy record first in the array
C23_Witness == DoveAndLifebuoy /\ Rec(results[1]) = 2

\* the match of extractWeight were the hyphenated pattern tried before the
\* two bare ones
HyphenatedFirst(title) ==
    IF title = Null \/ title = << >> THEN NoMatch
    ELSE OrElse(WeightMatchFrom(weightPatterns[2], title, 1),
                OrElse(WeightMatchFrom(weightPatterns[1], title, 1),
                       WeightMatchFrom(weightPatterns[3], title, 1)))

\* C24: extractWeight returns the match of the first pattern of its list
\* that matches, and the list has the hyphenated form (number, optional
\* hyphen, unit) before the bare forms (number directly followed by unit):
\* what it returns is the match of the hyphenated form when there is one.
C24_HyphenatedTriedFirst ==
    (call.fn = "extractWeight" /\ call.steps = 1) =>
        call.weight = HyphenatedFirst(call.text)

\* no candidate of the list holds white space
WithoutWhitespace(candidates) ==
    \A c \in DOMAIN candidates : \A i \in DOMAIN candidates[c] : candidates[c][i] # " "

\* the third strategy of checkBrandMatch alone: some word of the lowercased
\* title, split at white space, fits a candidate
ThirdStrategyAlone(title, candidates) ==
    /\ title # Null /\ title # << >>
    /\ Len(candidates) > 0
    /\ \E w \in DOMAIN SplitSpaces(ToLowerCase(title)) :
        WordFitsCandidate(SplitSpaces(ToLowerCase(title))[w], candidates)

\* the first word of the lowercased title fits a candidate
FirstStrategy(title, candidates) ==
    WordFitsCandidate(SplitSpaces(ToLowerCase(title))[1], candidates)

\* a candidate starts within the first 20 characters of the lowercased title
SecondStrategy(title, candidates) ==
    \E c \in DOMAIN candidates : \E i \in 1..20 : OccursAt(ToLowerCase(title), i, candidates[c])

\* C30: for candidates without white space, checkBrandMatch returns what
\* its third strategy alone returns (some word of the title equals,
\* contains or is contained in some candidate): the first-word strategy and
\* the limit of 20 characters never change the outcome.
C30_ThirdStrategyDecides ==
    (call.fn = "checkBrandMatch" /\ call.steps = 1 /\ WithoutWhitespace(call.brands)) =>
        (call.match <=> ThirdStrategyAlone(call.text, call.brands))

\* checkBrandMatch has returned true for a title whose first word fits no
\* candidate while a candidate starts within its first 20 characters
C30_Witness ==
    /\ call.fn = "checkBrandMatch" /\ call.steps = 1
    /\ WithoutWhitespace(call.brands) /\ Len(call.brands) > 0
    /\ call.match
    /\ ~FirstStrategy(call.text, call.brands)
    /\ SecondStrategy(call.text, call.brands)

\* C26: in every /search response, no two records of exactMatches and
\* alternatives taken together have the same lowercased title and the same
\* price string, also when they come from different platforms.
C26_NoDuplicateAcrossPlatforms ==
    pc = "responded" =>
        \A o, q \in RangeOf(exactMatches) \cup RangeOf(alternatives) :
            (/\ ToLowerCase(items[o].title) = ToLowerCase(items[q].title)
             /\ items[o].price = items[q].price) => o = q

\* C29: every /search request with a product parameter eventually receives
\* a response, and the server keeps serving: once the handler awaits the
\* adapters, the request is answered by a process that is still alive, also
\* when an adapter has not settled after 30 seconds.
C29_EveryRequestAnswered ==
    (pc = "awaiting") ~> (pc = "answered" /\ server.alive)

\* the request the process has finished with is a /search request with a
\* product string
SearchForProduct ==
    /\ pc \in { "answered", "crashed" }
    /\ server.req.path = SearchPath
    /\ server.req.product # Null
    /\ server.req.product # ProductArray

\* the platforms of the records of a response body
PlatformsIn(body) ==
    { body.exactMatches[i].platform : i \in DOMAIN body.exactMatches }
        \cup { body.alternatives[i].platform : i \in DOMAIN body.alternatives }

\* C25: for every /search request with a product parameter all five
\* adapters are invoked and the handler waits until each has settled; when
\* any of them fail the response is still a 200, built from the records of
\* the adapters that succeeded, with sources[platform] = 0 for each that
\* failed.
C25_AllSettledThen200 ==
    SearchForProduct =>
        /\ \A n \in DOMAIN Platforms : server.adapters[n] \in { "fulfilled", "failed" }
        /\ server.status = 200
        /\ server.body.kind = "results"
        /\ \A n \in DOMAIN Platforms :
            /\ server.adapters[n] = "failed" => server.body.sources[n] = 0
            /\ server.adapters[n] = "failed" <=> Platforms[n] \notin PlatformsIn(server.body)

\* C27: the cache stores only successful search results: a /search request
\* without the product parameter is always answered with status 400, and
\* no 400 or 500 error body is stored in the cache or replayed from it.
C27_CacheHoldsOnlyResults ==
    /\ \A e \in server.cache : e[2].kind = "results"
    /\ (pc = "answered" /\ server.req.path = SearchPath /\ server.req.product = Null)
         => server.status = 400
    /\ (pc = "answered" /\ "handler" \notin server.reached
                        /\ "cacheMiddleware" \in server.reached)
         => server.body.kind = "results"

\* the request the process works on or has answered carries no valid key
WithoutValidKey ==
    /\ server.req.path \in { SearchPath, ClearPath }
    /\ server.req.header # validApiKey
    /\ server.req.query # validApiKey

\* C28: a request to /search or /admin/cache/clear without a valid
\* x-api-key header and without a valid api_key parameter is answered with
\* 401 by apiKeyAuth and reaches neither the cache middleware, nor the
\* adapters, nor the cache flush.
C28_NoKeyNoService ==
    WithoutValidKey =>
        /\ server.reached \subseteq { "apiKeyAuth" }
        /\ pc = "answered" => server.status = 401

====
